---- MODULE Spec2Model ----
(***************************************************************************)
(* Model of the semantic matching core of the skills API:                  *)
(*   - SkillsMatcher (api/app/models/skills_matcher.py): the corpus index, *)
(*     build_corpus, find_similar and its wrappers;                        *)
(*   - the lazily created module-level service singletons of the routes    *)
(*     (api/app/routes/extraction.py, api/app/routes/skills.py).           *)
(*                                                                         *)
(* Texts are sequences of one-character strings, so that strip() and       *)
(* lower() are computed, not assumed.  Similarity scores are fixed-point   *)
(* numbers in units of 1/One (One = 10^7, about one float32 ulp near 1.0). *)
(***************************************************************************)
EXTENDS Integers, Sequences, FiniteSets, TLC

VARIABLES
    service,            \* the class of the service object that owns the matcher
    occupations,        \* OccupationInferenceService.occupations
    corpus,             \* SkillsMatcher.corpus: list of normalized texts
    corpus_embeddings,  \* SkillsMatcher.corpus_embeddings: None or array of vectors
    last,               \* the most recent call on the matcher and what it returned
    repeated,           \* history: `last` repeats the call before it (same operation,
                        \* same query or same raw terms) on the same matcher
    services,           \* routes: the module-level singleton references
    heap,               \* per getter and thread: the service object that thread's
                        \* constructor call created (the state of its SkillsMatcher)
    pc,                 \* per request thread: position inside get_*_service()
    target,             \* per request thread: which getter it is running
    returned            \* per getter: the references it has returned to callers

vars == <<service, occupations, corpus, corpus_embeddings, last, repeated,
          services, heap, pc, target, returned>>

matcherVars == <<service, occupations, corpus, corpus_embeddings, last, repeated>>
ownerVars == <<service, occupations>>
singletonVars == <<services, heap, pc, target, returned>>

Range(f) == {f[i] : i \in DOMAIN f}

\* Python's None in a field that otherwise holds an array, and an array in it
None == [some |-> FALSE, arr |-> <<>>]
Array(a) == [some |-> TRUE, arr |-> a]

----------------------------------------------------------------------------
(* Bounds of the model *)

\* longest list of raw terms handed to build_corpus
MaxTerms == 2
\* largest top_k a caller passes
MaxTopK == 2
\* number of concurrent request threads
NThreads == 2

----------------------------------------------------------------------------
(* Texts *)

IsSpace(c) == c = " "

\* str.lower() on one character
LowerChar(c) ==
    CASE c = "A" -> "a"
      [] c = "B" -> "b"
      [] c = "C" -> "c"
      [] OTHER -> c

\* str.lower()
Lower(s) == [i \in 1..Len(s) |-> LowerChar(s[i])]

RECURSIVE LStrip(_)
LStrip(s) ==
    IF s = <<>> THEN <<>>
    ELSE IF IsSpace(Head(s)) THEN LStrip(Tail(s))
    ELSE s

RECURSIVE RStrip(_)
RStrip(s) ==
    IF s = <<>> THEN <<>>
    ELSE IF IsSpace(s[Len(s)]) THEN RStrip(SubSeq(s, 1, Len(s) - 1))
    ELSE s

\* str.strip()
Strip(s) == RStrip(LStrip(s))

\* the expression s.strip().lower() of build_corpus, find_similar and calculate_similarity
Normalize(s) == Lower(Strip(s))

\* whitespace tokenisation done by the embedding model's tokenizer:
\* runs of spaces separate words and are otherwise ignored
RECURSIVE Tokens(_)
Tokens(s) ==
    LET t == LStrip(s)
        WordEnd == IF \E i \in 1..Len(t) : IsSpace(t[i])
                   THEN (CHOOSE i \in 1..Len(t) :
                            IsSpace(t[i]) /\ \A j \in 1..(i - 1) : ~IsSpace(t[j])) - 1
                   ELSE Len(t)
    IN  IF t = <<>> THEN <<>>
        ELSE <<SubSeq(t, 1, WordEnd)>> \o Tokens(SubSeq(t, WordEnd + 1, Len(t)))

\* raw terms a caller may pass to build_corpus
RawTerms ==
    { <<"a">>,                   \* "a"
      <<"A", " ">>,              \* "A "   (normalizes to "a")
      <<"a", " ", "b">>,         \* "a b"
      <<"a", " ", " ", "b">>,    \* "a  b" (another text, the same tokens)
      <<" ">> }                  \* " "    (blank: stripped to the empty string)

\* queries a caller may pass to find_similar
Queries ==
    { <<" ", "A">>,              \* " A"   (normalizes to "a")
      <<"b">>,                   \* "b"
      <<"a", " ", "b">>,         \* "a b"
      <<"c">> }                  \* "c"    (not a corpus term)

----------------------------------------------------------------------------
(* EmbeddingOracle and cosine similarity *)

One == 10 ^ 7

\* SentenceTransformer.encode on one normalized text.  A vector is a point of
\* the plane with integer norm; ulp is the float32 rounding residue left on the
\* vector by L2 normalization, in units of 1/One.
Encode(text) ==
    LET toks == Tokens(text)
    IN  CASE toks = << <<"a">> >>           -> [x |-> 3,  y |-> 4,  ulp |-> 1]
          [] toks = << <<"b">> >>           -> [x |-> 4,  y |-> 3,  ulp |-> 0]
          [] toks = << <<"a">>, <<"b">> >>  -> [x |-> 0,  y |-> 10, ulp |-> -1]
          [] toks = << <<"b">>, <<"a">> >>  -> [x |-> 6,  y |-> 8,  ulp |-> 1]
          [] toks = << <<"c">> >>           -> [x |-> -3, y |-> -4, ulp |-> 0]
          [] toks = << <<"a">>, <<"c">> >>  -> [x |-> 0,  y |-> 5,  ulp |-> 1]
          [] toks = << >>                   -> [x |-> 5,  y |-> 0,  ulp |-> 0]
          [] OTHER                          -> [x |-> -4, y |-> 3,  ulp |-> 0]

Dot(u, v) == u.x * v.x + u.y * v.y

Norm(u) == CHOOSE n \in 0..20 : n * n = Dot(u, u)

\* util.pytorch_cos_sim on two vectors: dot(a,b) / (|a| |b|) in float32.  The
\* result is not clamped: rounding can leave it one unit above 1.0 or below.
CosSim(u, v) == (One * Dot(u, v)) \div (Norm(u) * Norm(v)) + (u.ulp + v.ulp) \div 2

----------------------------------------------------------------------------
(* SkillsMatcher *)

RECURSIVE DictFromKeys(_)
\* list(dict.fromkeys(xs)): duplicates removed, first occurrence kept
DictFromKeys(xs) ==
    IF xs = <<>> THEN <<>>
    ELSE LET init == DictFromKeys(SubSeq(xs, 1, Len(xs) - 1))
             x == xs[Len(xs)]
         IN  IF \E i \in 1..Len(init) : init[i] = x THEN init ELSE Append(init, x)

NonBlank(s) == Strip(s) # <<>>

\* an item of a request's list that is not a str (a number, say)
NotAString == <<"<int>">>

\* isinstance(s, str)
IsStr(s) == s # NotAString

\* build_corpus without line 81: duplicates are kept
BuildCorpusListKeepingDuplicates(skills) ==
    LET kept == SelectSeq(skills, NonBlank)
    IN  [i \in 1..Len(kept) |-> Normalize(kept[i])]

\* build_corpus, lines 80-81: the new value of self.corpus
BuildCorpusList(skills) ==
    LET kept == SelectSeq(skills, NonBlank)
    IN  DictFromKeys([i \in 1..Len(kept) |-> Normalize(kept[i])])

\* encode_texts: the array of embeddings, or the empty array np.array([]) when
\* the model raises
EncodeTexts(texts, oracleOk) ==
    IF oracleOk THEN Array([i \in 1..Len(texts) |-> Encode(texts[i])]) ELSE Array(<<>>)

\* results[:top_k]
Slice(s, k) ==
    IF k >= 0 THEN SubSeq(s, 1, IF k < Len(s) THEN k ELSE Len(s))
    ELSE SubSeq(s, 1, IF Len(s) + k > 0 THEN Len(s) + k ELSE 0)

RECURSIVE InsertDescUnstable(_, _)
\* insert r in front of the elements that score the same: an unstable sort
InsertDescUnstable(sorted, r) ==
    IF sorted = <<>> THEN <<r>>
    ELSE IF Head(sorted).score > r.score
         THEN <<Head(sorted)>> \o InsertDescUnstable(Tail(sorted), r)
    ELSE <<r>> \o sorted

RECURSIVE InsertDesc(_, _)
\* insert r behind every element whose score is >= r.score
InsertDesc(sorted, r) ==
    IF sorted = <<>> THEN <<r>>
    ELSE IF Head(sorted).score >= r.score THEN <<Head(sorted)>> \o InsertDesc(Tail(sorted), r)
    ELSE <<r>> \o sorted

RECURSIVE SortDesc(_)
\* results.sort(key=lambda x: x[1], reverse=True): stable, descending by score
SortDesc(rs) ==
    IF rs = <<>> THEN <<>>
    ELSE InsertDesc(SortDesc(SubSeq(rs, 1, Len(rs) - 1)), rs[Len(rs)])

\* the list comprehension with `score > threshold`
FilteredStrictly(c, emb, qe, threshold) ==
    LET Pair(i) == [text |-> c[i], score |-> CosSim(qe, emb[i])]
        all == [i \in 1..Len(emb) |-> Pair(i)]
        Clears(r) == r.score > threshold
    IN  SelectSeq(all, Clears)

\* the list comprehension with `score <= threshold`
FilteredBelow(c, emb, qe, threshold) ==
    LET Pair(i) == [text |-> c[i], score |-> CosSim(qe, emb[i])]
        all == [i \in 1..Len(emb) |-> Pair(i)]
        Clears(r) == r.score <= threshold
    IN  SelectSeq(all, Clears)

\* the list comprehension of find_similar, lines 130-134
Filtered(c, emb, qe, threshold) ==
    LET Pair(i) == [text |-> c[i], score |-> CosSim(qe, emb[i])]
        all == [i \in 1..Len(emb) |-> Pair(i)]
        Clears(r) == r.score >= threshold
    IN  SelectSeq(all, Clears)

\* find_similar answering a matcher that is not ready with the query itself
FindSimilarEchoing(c, emb, query, top_k, threshold, oracleOk) ==
    IF emb = None \/ Len(c) = 0 THEN <<[text |-> Normalize(query), score |-> 0]>>
    ELSE IF ~oracleOk THEN <<>>
    ELSE IF Len(emb.arr) # Len(c) THEN <<>>
    ELSE Slice(SortDesc(Filtered(c, emb.arr, Encode(Normalize(query)), threshold)), top_k)

\* find_similar encoding the query as it was passed, not stripped and lowercased
FindSimilarUnnormalized(c, emb, query, top_k, threshold, oracleOk) ==
    IF emb = None \/ Len(c) = 0 THEN <<>>
    ELSE IF ~oracleOk THEN <<>>
    ELSE IF Len(emb.arr) # Len(c) THEN <<>>
    ELSE Slice(SortDesc(Filtered(c, emb.arr, Encode(query), threshold)), top_k)

\* find_similar on a matcher whose fields are c and emb
FindSimilar(c, emb, query, top_k, threshold, oracleOk) ==
    IF emb = None \/ Len(c) = 0 THEN <<>>
    ELSE IF ~oracleOk THEN <<>>                 \* model.encode raised: except branch
    ELSE IF Len(emb.arr) # Len(c) THEN <<>>     \* pytorch_cos_sim raised: except branch
    ELSE Slice(SortDesc(Filtered(c, emb.arr, Encode(Normalize(query)), threshold)), top_k)

\* is_corpus_ready (the model is loaded by the constructor or the constructor raised)
IsCorpusReady(c, emb) == emb # None /\ Len(c) > 0

----------------------------------------------------------------------------
(* Calls on one SkillsMatcher *)

NoCall == [op |-> "none"]

\* thresholds a caller may pass (0.0, 0.6, 0.8, 0.999, 1.0 and, unvalidated, -1.0)
Thresholds == {0 - One, 0, (6 * One) \div 10, (8 * One) \div 10, One - One \div 1000, One}

TopKs == 1..MaxTopK

RECURSIVE SeqsUpTo(_, _)
\* the sequences over S of length at most n
SeqsUpTo(S, n) ==
    IF n = 0 THEN {<<>>}
    ELSE LET shorter == SeqsUpTo(S, n - 1)
         IN  shorter \cup {Append(s, x) : s \in {t \in shorter : Len(t) = n - 1}, x \in S}

\* SkillsMatcher.__init__: corpus = [], corpus_embeddings = None
MatcherInit ==
    /\ service = "SkillsMatcher"
    /\ occupations = <<>>
    /\ corpus = <<>>
    /\ corpus_embeddings = None
    /\ last = NoCall
    /\ repeated = FALSE

\* build_corpus extending the vocabulary it finds instead of replacing it
BuildCorpusAccumulating(skills, oracleOk) ==
    /\ corpus' = corpus \o BuildCorpusList(skills)
    /\ corpus_embeddings' = EncodeTexts(corpus', oracleOk)
    /\ last' = [op |-> "build_corpus", skills |-> skills, oracleOk |-> oracleOk]
    /\ repeated' = (last.op = "build_corpus" /\ last.skills = skills)
    /\ UNCHANGED ownerVars

\* build_corpus(skills); oracleOk is whether the model's encode succeeds
BuildCorpus(skills, oracleOk) ==
    /\ corpus' = BuildCorpusList(skills)
    /\ corpus_embeddings' = EncodeTexts(corpus', oracleOk)
    /\ last' = [op |-> "build_corpus", skills |-> skills, oracleOk |-> oracleOk]
    /\ repeated' = (last.op = "build_corpus" /\ last.skills = skills)
    /\ UNCHANGED ownerVars

\* find_similar adding the query it was asked to the vocabulary
FindSimilarCallLearning(query, top_k, threshold, oracleOk) ==
    /\ last' = [op |-> "find_similar", query |-> query, top_k |-> top_k,
                threshold |-> threshold, oracleOk |-> oracleOk,
                result |-> FindSimilar(corpus, corpus_embeddings, query, top_k,
                                       threshold, oracleOk)]
    /\ repeated' = (last.op = "find_similar" /\ last.query = query)
    /\ corpus' = DictFromKeys(Append(corpus, Normalize(query)))
    /\ corpus_embeddings' = IF corpus_embeddings.some
                            THEN Array([i \in 1..Len(corpus') |-> Encode(corpus'[i])])
                            ELSE None
    /\ UNCHANGED ownerVars

\* find_similar(query, top_k, threshold); oracleOk is whether the model's encode
\* of the query succeeds
FindSimilarCall(query, top_k, threshold, oracleOk) ==
    /\ last' = [op |-> "find_similar", query |-> query, top_k |-> top_k,
                threshold |-> threshold, oracleOk |-> oracleOk,
                result |-> FindSimilar(corpus, corpus_embeddings, query, top_k,
                                       threshold, oracleOk)]
    /\ repeated' = (last.op = "find_similar" /\ last.query = query)
    /\ UNCHANGED <<corpus, corpus_embeddings, ownerVars>>

\* batch_find_similar(queries, top_k, threshold): the dict it returns, keyed by
\* the raw queries; failing is the set of queries on which the model raises
BatchFindSimilar(c, emb, queries, top_k, threshold, failing) ==
    [q \in {queries[i] : i \in 1..Len(queries)} |->
        FindSimilar(c, emb, q, top_k, threshold, q \notin failing)]

BatchFindSimilarCall(queries, top_k, threshold, failing) ==
    /\ last' = [op |-> "batch_find_similar", queries |-> queries, top_k |-> top_k,
                threshold |-> threshold, failing |-> failing,
                result |-> BatchFindSimilar(corpus, corpus_embeddings, queries, top_k,
                                            threshold, failing)]
    /\ repeated' = FALSE
    /\ UNCHANGED <<corpus, corpus_embeddings, ownerVars>>

\* calculate_similarity(text1, text2): the cosine of the two embeddings, 0.0 when
\* the model raises
CalculateSimilarity(text1, text2, oracleOk) ==
    IF oracleOk THEN CosSim(Encode(Normalize(text1)), Encode(Normalize(text2))) ELSE 0

CalculateSimilarityCall(text1, text2, oracleOk) ==
    /\ last' = [op |-> "calculate_similarity", text1 |-> text1, text2 |-> text2,
                oracleOk |-> oracleOk,
                result |-> CalculateSimilarity(text1, text2, oracleOk)]
    /\ repeated' = FALSE
    /\ UNCHANGED <<corpus, corpus_embeddings, ownerVars>>

\* top_k that expand_skills passes to find_similar
ExpandTopK == 10

\* expand_skills(skill, expansion_terms, threshold); expansion_terms is not read
ExpandSkills(c, emb, skill, threshold, oracleOk) ==
    LET similar == FindSimilar(c, emb, skill, ExpandTopK, threshold, oracleOk)
    IN  [original_skill |-> skill,
         similar_skills |-> [i \in 1..Len(similar) |->
                               [skill |-> similar[i].text,
                                similarity_score |-> similar[i].score]],
         total_found |-> Len(similar),
         threshold_used |-> threshold]

ExpandSkillsCall(skill, threshold, oracleOk) ==
    /\ last' = [op |-> "expand_skills", skill |-> skill, threshold |-> threshold,
                oracleOk |-> oracleOk,
                result |-> ExpandSkills(corpus, corpus_embeddings, skill, threshold,
                                        oracleOk)]
    /\ repeated' = FALSE
    /\ UNCHANGED <<corpus, corpus_embeddings, ownerVars>>

----------------------------------------------------------------------------
(* The services that own a SkillsMatcher *)

\* Python's None in a field that otherwise holds a text, and a text in it
NoText == [some |-> FALSE, text |-> <<>>]
SomeText(t) == [some |-> TRUE, text |-> t]

\* `needle in hay` on two strings
Contains(hay, needle) ==
    \E i \in 0..(Len(hay) - Len(needle)) : SubSeq(hay, i + 1, i + Len(needle)) = needle

RECURSIVE SumScores(_)
\* sum(scores)
SumScores(scores) ==
    IF scores = <<>> THEN 0 ELSE Head(scores) + SumScores(Tail(scores))

\* similarity above which match_skills_with_bert reports high confidence (0.85)
HighConfidence == (85 * One) \div 100

\* match_skills_with_bert reporting the last hit of find_similar, not the first
MatchSkillsWithBertLastHit(c, emb, skills, threshold, top_k, failing) ==
    IF skills = <<>> THEN <<>>
    ELSE IF ~IsCorpusReady(c, emb) THEN <<>>
    ELSE LET Valid(s) == IsStr(s) /\ NonBlank(s)
             valid_skills == SelectSeq(skills, Valid)
             One_(skill) ==
                 LET results == FindSimilar(c, emb, skill, top_k, threshold,
                                            skill \notin failing)
                     worst == results[Len(results)]
                 IN  IF results # <<>>
                     THEN [original |-> skill,
                           matched_skill |-> SomeText(worst.text),
                           similarity_score |-> worst.score,
                           confidence |-> IF worst.score > HighConfidence
                                          THEN "high" ELSE "medium"]
                     ELSE [original |-> skill,
                           matched_skill |-> NoText,
                           similarity_score |-> 0,
                           confidence |-> "low",
                           reason |-> "Sem match acima do threshold"]
         IN  [i \in 1..Len(valid_skills) |-> One_(Strip(valid_skills[i]))]

\* match_skills_with_bert(skills, threshold, top_k); failing is the set of
\* skills on which the model's encode raises
MatchSkillsWithBert(c, emb, skills, threshold, top_k, failing) ==
    IF skills = <<>> THEN <<>>
    ELSE IF ~IsCorpusReady(c, emb) THEN <<>>
    ELSE LET Valid(s) == IsStr(s) /\ NonBlank(s)
             valid_skills == SelectSeq(skills, Valid)
             One_(skill) ==
                 LET results == FindSimilar(c, emb, skill, top_k, threshold,
                                            skill \notin failing)
                 IN  IF results # <<>>
                     THEN [original |-> skill,
                           matched_skill |-> SomeText(results[1].text),
                           similarity_score |-> results[1].score,
                           confidence |-> IF results[1].score > HighConfidence
                                          THEN "high" ELSE "medium"]
                     ELSE [original |-> skill,
                           matched_skill |-> NoText,
                           similarity_score |-> 0,
                           confidence |-> "low",
                           reason |-> "Sem match acima do threshold"]
         IN  [i \in 1..Len(valid_skills) |-> One_(Strip(valid_skills[i]))]

\* results[key] = value on a dict kept as the list of its items: a key that is
\* there keeps its place and takes the new value
DictPut(results, item) ==
    IF \E i \in 1..Len(results) : results[i].key = item.key
    THEN [i \in 1..Len(results) |-> IF results[i].key = item.key THEN item ELSE results[i]]
    ELSE Append(results, item)

\* round(score, 4) on one score, in units of 1/One
RoundScore(score) ==
    LET unit == One \div 10000
        q == score \div unit
        r == score - q * unit
    IN  (IF 2 * r > unit THEN q + 1 ELSE IF 2 * r = unit THEN q + (q % 2) ELSE q) * unit

\* the result match_unrecognized_skills stores for one skill (synonyms and
\* related occupations are looked up in the dataset and left out)
UnrecognizedSkillResult(c, emb, skill, top_k, threshold, failing) ==
    LET similar == FindSimilar(c, emb, skill, top_k, threshold, skill \notin failing)
        enhanced_matches == [i \in 1..Len(similar) |->
                               [matched_skill |-> similar[i].text,
                                similarity_score |-> RoundScore(similar[i].score)]]
    IN  [key |-> Normalize(skill),
         matched |-> Len(enhanced_matches) > 0,
         matches |-> enhanced_matches,
         total_matches |-> Len(enhanced_matches),
         threshold_used |-> threshold]

RECURSIVE MatchUnrecognizedLoop(_, _, _, _, _, _, _)
\* the loop of match_unrecognized_skills, lines 67-103, inside its try: an item
\* that is not a str has no strip(), the exception ends the loop and the except
\* branch returns the error with the results so far
MatchUnrecognizedLoop(c, emb, skills, top_k, threshold, failing, results) ==
    IF skills = <<>> THEN [error |-> FALSE, results |-> results]
    ELSE LET skill == Head(skills)
         IN  IF ~IsStr(skill) THEN [error |-> TRUE, partial_results |-> results]
             ELSE IF ~NonBlank(skill)
             THEN MatchUnrecognizedLoop(c, emb, Tail(skills), top_k, threshold, failing,
                                        results)
             ELSE MatchUnrecognizedLoop(c, emb, Tail(skills), top_k, threshold, failing,
                      DictPut(results, UnrecognizedSkillResult(c, emb, skill, top_k,
                                                               threshold, failing)))

\* match_unrecognized_skills(unrecognized_skills, top_k, threshold)
MatchUnrecognizedSkills(c, emb, unrecognized_skills, top_k, threshold, failing) ==
    IF ~IsCorpusReady(c, emb) THEN [error |-> TRUE]
    ELSE MatchUnrecognizedLoop(c, emb, unrecognized_skills, top_k, threshold, failing, <<>>)

\* limits and defaults of the /skills/match route
MatchMaxSkills == 100
MatchMaxTopK == 20
MatchDefaultTopK == 3
MatchDefaultThreshold == (75 * One) \div 100

\* POST /api/v1/skills/match with a JSON body whose unrecognized_skills is a list
SkillsMatchRoute(c, emb, unrecognized_skills, top_k, threshold, failing) ==
    IF Len(unrecognized_skills) = 0 \/ Len(unrecognized_skills) > MatchMaxSkills
    THEN [status |-> "error", code |-> 400]
    ELSE LET k == IF top_k < 1 \/ top_k > MatchMaxTopK THEN MatchDefaultTopK ELSE top_k
             th == IF threshold < 0 \/ threshold > One THEN MatchDefaultThreshold
                   ELSE threshold
             results == MatchUnrecognizedSkills(c, emb, unrecognized_skills, k, th, failing)
         IN  IF ~IsCorpusReady(c, emb) THEN [status |-> "error", code |-> 503]
             ELSE IF results.error THEN [status |-> "error", code |-> 500]
             ELSE [status |-> "success", code |-> 200,
                   input_skills_count |-> Len(unrecognized_skills),
                   results |-> results.results,
                   parameters |-> [top_k |-> k, threshold |-> th]]

\* top_k and threshold enrich_skills_profile passes to find_similar (5, 0.50)
EnrichTopK == 5
EnrichThreshold == (50 * One) \div 100

\* what enrich_skills_profile appends to skills_processed for one skill
ProcessedSkill(c, emb, skill, confidence_threshold, failing) ==
    LET skill_clean == Normalize(skill)
        similar == FindSimilar(c, emb, skill_clean, EnrichTopK, EnrichThreshold,
                               skill \notin failing)
        Confident(m) == m.score >= confidence_threshold
        confident_matches == SelectSeq(similar, Confident)
    IN  [original |-> skill,
         normalized |-> skill_clean,
         high_confidence_matches |->
             [i \in 1..Len(confident_matches) |->
                 [skill |-> confident_matches[i].text,
                  score |-> RoundScore(confident_matches[i].score)]],
         is_recognized |-> Len(confident_matches) > 0]

\* enrich_skills_profile(skills, confidence_threshold): an item that is not a
\* str ends the loop with an exception and the except branch returns the error
EnrichSkillsProfile(c, emb, skills, confidence_threshold, failing) ==
    IF ~IsCorpusReady(c, emb) THEN [error |-> TRUE]
    ELSE IF \E i \in 1..Len(skills) : ~IsStr(skills[i]) THEN [error |-> TRUE]
    ELSE LET kept == SelectSeq(skills, NonBlank)
         IN  [error |-> FALSE,
              input_skills_count |-> Len(skills),
              skills_processed |->
                  [i \in 1..Len(kept) |->
                      ProcessedSkill(c, emb, kept[i], confidence_threshold, failing)],
              summary |-> [total_original |-> Len(skills),
                           confidence_threshold |-> confidence_threshold]]

\* POST /api/v1/skills/enrich with a JSON body whose skills is a list; the
\* confidence_threshold of the body is passed on as it came
EnrichRoute(c, emb, skills, confidence_threshold, failing) ==
    IF Len(skills) = 0 THEN [status |-> "error", code |-> 400]
    ELSE IF ~IsCorpusReady(c, emb) THEN [status |-> "error", code |-> 503]
    ELSE LET enriched == EnrichSkillsProfile(c, emb, skills, confidence_threshold, failing)
         IN  IF enriched.error THEN [status |-> "error", code |-> 500]
             ELSE [status |-> "success", code |-> 200, data |-> enriched]

\* num / den rounded to the nearest integer, a tie to the even one
RoundHalfEven(num, den) ==
    LET q == num \div den
        r == num - q * den
    IN  IF 2 * r > den THEN q + 1
        ELSE IF 2 * r = den THEN q + (q % 2)
        ELSE q

\* the alternatives of SKILL_PATTERNS, in the model's alphabet: "cccc" and "a"
SKILL_PATTERNS == { <<"c", "c", "c", "c">>, <<"a">> }

\* A resume text is read as the sequence of its mentions of a term: the term as
\* it is written, and whether it stands behind a phrase such as
\* "proficiente em" that the contextual patterns capture.

\* extract_skills_via_regex: the set of matched texts, as written; the patterns
\* are applied with re.IGNORECASE
extract_skills_via_regex(text) ==
    {Strip(text[i].term) : i \in {j \in 1..Len(text) :
        /\ Lower(Strip(text[j].term)) \in SKILL_PATTERNS
        /\ Strip(text[j].term) # <<>>}}

\* extract_skills_via_llm: the set of captured groups, stripped, longer than
\* three characters and of at most four words
extract_skills_via_llm(text) ==
    {Strip(text[i].term) : i \in {j \in 1..Len(text) :
        /\ text[j].phrase
        /\ Len(Strip(text[j].term)) > 3
        /\ Len(Tokens(Strip(text[j].term))) <= 4}}

\* list(set(xs)): xs holds every element of S once, in some order
IsListOfSet(xs, S) ==
    /\ Len(xs) = Cardinality(S)
    /\ Range(xs) = S

\* extract_resume_skills(resume_text, threshold, top_k) from all_skills, the
\* deduplicated skills the two regex passes found in the text; match_rate is
\* the percentage with one decimal, in tenths of a percent
ExtractResumeSkills(c, emb, all_skills, threshold, top_k, failing) ==
    LET mapped_skills == MatchSkillsWithBert(c, emb, all_skills, threshold, top_k, failing)
        successful_matches == Cardinality({i \in 1..Len(mapped_skills) :
                                             mapped_skills[i].matched_skill.some})
    IN  [total_skills_found |-> Len(all_skills),
         successful_matches |-> successful_matches,
         match_rate |-> IF all_skills # <<>>
                        THEN RoundHalfEven(successful_matches * 1000, Len(all_skills))
                        ELSE 0,
         skills |-> mapped_skills]

\* default threshold and top_k of the /extract route
ExtractDefaultThreshold == (75 * One) \div 100
ExtractDefaultTopK == 1
ExtractMaxTopK == 10

\* POST /api/v1/extract with a valid resume_text: threshold and top_k are
\* defaulted when out of range, the service extracts and maps, the response
\* is a success
ExtractRoute(c, emb, all_skills, threshold, top_k, failing) ==
    LET th == IF threshold < 0 \/ threshold > One THEN ExtractDefaultThreshold
              ELSE threshold
        k == IF top_k < 1 \/ top_k > ExtractMaxTopK THEN ExtractDefaultTopK ELSE top_k
        result == ExtractResumeSkills(c, emb, all_skills, th, k, failing)
    IN  [status |-> "success", code |-> 200,
         total_skills_found |-> result.total_skills_found,
         successful_matches |-> result.successful_matches,
         match_rate |-> result.match_rate,
         skills |-> result.skills]

\* threshold and top_k of the semantic fallback of calculate_profile_match
ProfileThreshold == (70 * One) \div 100
ProfileTopK == 1

\* the loop body without the exact-match branch: every requirement goes to
\* find_similar
RequirementOutcomeSemanticOnly(c, emb, candidate_skills, requirement, failing) ==
    LET candidate_skills_lower == [i \in 1..Len(candidate_skills) |->
                                     Lower(candidate_skills[i])]
        bert_results == FindSimilar(c, emb, requirement, ProfileTopK, ProfileThreshold,
                                    requirement \notin failing)
    IN  IF bert_results # <<>>
           /\ \E i \in 1..Len(candidate_skills_lower) :
                 candidate_skills_lower[i] = Lower(bert_results[1].text)
        THEN [matched |-> TRUE, score |-> bert_results[1].score, queried |-> TRUE]
        ELSE [matched |-> FALSE, score |-> 0, queried |-> TRUE]

\* the loop of calculate_profile_match over the requirements: what one
\* requirement adds to matched_skills, missing_skills and scores, and whether
\* it called find_similar
RequirementOutcome(c, emb, candidate_skills, requirement, failing) ==
    LET candidate_skills_lower == [i \in 1..Len(candidate_skills) |->
                                     Lower(candidate_skills[i])]
        req_lower == Lower(requirement)
        exact_match == \E i \in 1..Len(candidate_skills_lower) :
                          \/ Contains(candidate_skills_lower[i], req_lower)
                          \/ Contains(req_lower, candidate_skills_lower[i])
        bert_results == FindSimilar(c, emb, requirement, ProfileTopK, ProfileThreshold,
                                    requirement \notin failing)
    IN  IF exact_match THEN [matched |-> TRUE, score |-> One, queried |-> FALSE]
        ELSE IF bert_results # <<>>
                /\ \E i \in 1..Len(candidate_skills_lower) :
                      candidate_skills_lower[i] = Lower(bert_results[1].text)
             THEN [matched |-> TRUE, score |-> bert_results[1].score, queried |-> TRUE]
        ELSE [matched |-> FALSE, score |-> 0, queried |-> TRUE]

\* the count of find_similar calls of a calculate_profile_match without its two
\* early returns
ProfileQueriesWithoutEarlyReturn(c, emb, candidate_skills, job_requirements, failing) ==
    Cardinality({i \in 1..Len(job_requirements) :
        RequirementOutcome(c, emb, candidate_skills, job_requirements[i],
                           failing).queried})

\* the number of find_similar calls calculate_profile_match makes: none on the
\* two early returns, otherwise one for each requirement without an exact match
ProfileQueries(c, emb, candidate_skills, job_requirements, failing) ==
    IF job_requirements = <<>> \/ candidate_skills = <<>> THEN 0
    ELSE Cardinality({i \in 1..Len(job_requirements) :
            RequirementOutcome(c, emb, candidate_skills, job_requirements[i],
                               failing).queried})

\* the levels with the cut points read as strict bounds
ProfileLevelAbove(match_percentage) ==
    IF match_percentage > 90 THEN "EXCELENTE"
    ELSE IF match_percentage > 75 THEN "BOM"
    ELSE IF match_percentage > 60 THEN "MODERADO"
    ELSE IF match_percentage > 40 THEN "BAIXO"
    ELSE "INSUFICIENTE"

\* the level calculate_profile_match gives a percentage
ProfileLevel(match_percentage) ==
    IF match_percentage >= 90 THEN "EXCELENTE"
    ELSE IF match_percentage >= 75 THEN "BOM"
    ELSE IF match_percentage >= 60 THEN "MODERADO"
    ELSE IF match_percentage >= 40 THEN "BAIXO"
    ELSE "INSUFICIENTE"

\* calculate_profile_match testing candidate_skills before job_requirements
CalculateProfileMatchCandidatesFirst(c, emb, candidate_skills, job_requirements, failing) ==
    IF candidate_skills = <<>>
    THEN [match_score |-> [num |-> 0, den |-> 1],
          match_percentage |-> 0,
          required_skills |-> job_requirements,
          matched_skills |-> <<>>,
          missing_skills |-> job_requirements]
    ELSE [error |-> "Nenhum requisito fornecido"]

\* calculate_profile_match without line 293: a requirement whose nearest entry
\* is no candidate skill is put in neither list
CalculateProfileMatchDroppingRequirement(c, emb, candidate_skills, job_requirements, failing) ==
    IF job_requirements = <<>> THEN [error |-> "Nenhum requisito fornecido"]
    ELSE IF candidate_skills = <<>>
    THEN [match_score |-> [num |-> 0, den |-> 1],
          match_percentage |-> 0,
          required_skills |-> job_requirements,
          matched_skills |-> <<>>,
          missing_skills |-> job_requirements]
    ELSE LET n == Len(job_requirements)
             out == [i \in 1..n |->
                       RequirementOutcome(c, emb, candidate_skills, job_requirements[i],
                                          failing)]
             IsMatched(i) == out[i].matched
             IsMissing(i) ==
                 /\ ~out[i].matched
                 /\ FindSimilar(c, emb, job_requirements[i], ProfileTopK, ProfileThreshold,
                                job_requirements[i] \notin failing) = <<>>
             matchedIdx == SelectSeq([i \in 1..n |-> i], IsMatched)
             missingIdx == SelectSeq([i \in 1..n |-> i], IsMissing)
             scores == [k \in 1..Len(matchedIdx) |-> out[matchedIdx[k]].score]
             total == SumScores(scores)
             percent == (total \div (One \div 100)) \div n
             match_percentage == IF percent > 100 THEN 100 ELSE percent
         IN  [match_score |-> [num |-> total, den |-> n],
              match_percentage |-> match_percentage,
              level |-> ProfileLevel(match_percentage),
              matched_skills |-> [k \in 1..Len(matchedIdx) |->
                                    job_requirements[matchedIdx[k]]],
              matched_count |-> Len(matchedIdx),
              missing_skills |-> [k \in 1..Len(missingIdx) |->
                                    job_requirements[missingIdx[k]]],
              missing_count |-> Len(missingIdx),
              required_skills |-> job_requirements,
              required_count |-> n]

\* calculate_profile_match(candidate_skills, job_requirements); the weights are
\* not read.  match_score is the quotient sum(scores) / len(job_requirements),
\* kept as numerator and denominator; match_percentage is int(avg_score * 100)
\* capped at 100, which for the list lengths of the model is the exact floor
CalculateProfileMatch(c, emb, candidate_skills, job_requirements, failing) ==
    IF job_requirements = <<>> THEN [error |-> "Nenhum requisito fornecido"]
    ELSE IF candidate_skills = <<>>
    THEN [match_score |-> [num |-> 0, den |-> 1],
          match_percentage |-> 0,
          required_skills |-> job_requirements,
          matched_skills |-> <<>>,
          missing_skills |-> job_requirements]
    ELSE LET n == Len(job_requirements)
             out == [i \in 1..n |->
                       RequirementOutcome(c, emb, candidate_skills, job_requirements[i],
                                          failing)]
             IsMatched(i) == out[i].matched
             IsMissing(i) == ~out[i].matched
             matchedIdx == SelectSeq([i \in 1..n |-> i], IsMatched)
             missingIdx == SelectSeq([i \in 1..n |-> i], IsMissing)
             scores == [k \in 1..Len(matchedIdx) |-> out[matchedIdx[k]].score]
             total == SumScores(scores)
             percent == (total \div (One \div 100)) \div n
             match_percentage == IF percent > 100 THEN 100 ELSE percent
         IN  [match_score |-> [num |-> total, den |-> n],
              match_percentage |-> match_percentage,
              level |-> ProfileLevel(match_percentage),
              matched_skills |-> [k \in 1..Len(matchedIdx) |->
                                    job_requirements[matchedIdx[k]]],
              matched_count |-> Len(matchedIdx),
              missing_skills |-> [k \in 1..Len(missingIdx) |->
                                    job_requirements[missingIdx[k]]],
              missing_count |-> Len(missingIdx),
              required_skills |-> job_requirements,
              required_count |-> n]

\* top_k that infer_occupations passes to find_similar
InferTopK == 10

RECURSIVE AddResultsKeepingFirst(_, _)
\* the accumulation keeping, for a title, only the score of its first hit
AddResultsKeepingFirst(occupation_scores, results) ==
    IF results = <<>> THEN occupation_scores
    ELSE LET r == Head(results)
             hit == {i \in 1..Len(occupation_scores) : occupation_scores[i].titulo = r.text}
         IN  AddResultsKeepingFirst(
                 IF hit = {}
                 THEN Append(occupation_scores, [titulo |-> r.text, scores |-> <<r.score>>])
                 ELSE occupation_scores,
                 Tail(results))

RECURSIVE AddResults(_, _)
\* infer_occupations lines 183-186: the hits of one keyword are appended to the
\* per-title score lists; a dict keeps its keys in insertion order
AddResults(occupation_scores, results) ==
    IF results = <<>> THEN occupation_scores
    ELSE LET r == Head(results)
             hit == {i \in 1..Len(occupation_scores) : occupation_scores[i].titulo = r.text}
         IN  AddResults(IF hit = {}
                        THEN Append(occupation_scores,
                                    [titulo |-> r.text, scores |-> <<r.score>>])
                        ELSE [i \in 1..Len(occupation_scores) |->
                                 IF i \in hit
                                 THEN [occupation_scores[i] EXCEPT
                                          !.scores = Append(@, r.score)]
                                 ELSE occupation_scores[i]],
                        Tail(results))

RECURSIVE OccupationScores(_, _, _, _, _, _)
\* the loop of infer_occupations over the keywords, lines 171-186
OccupationScores(c, emb, keywords, threshold, failing, occupation_scores) ==
    IF keywords = <<>> THEN occupation_scores
    ELSE LET keyword == Head(keywords)
         IN  OccupationScores(c, emb, Tail(keywords), threshold, failing,
                 IF Len(Strip(keyword)) < 3 THEN occupation_scores
                 ELSE AddResults(occupation_scores,
                                 FindSimilar(c, emb, keyword, InferTopK, threshold,
                                             keyword \notin failing)))

\* round(num / den, 4) in units of 1/One: to the nearest multiple of One / 10^4,
\* a tie to the even one
Round4(num, den) ==
    LET unit == den * (One \div 10000)
        q == num \div unit
        r == num - q * unit
        n == IF 2 * r > unit THEN q + 1
             ELSE IF 2 * r = unit THEN q + (q % 2)
             ELSE q
    IN  n * (One \div 10000)

\* the lookup without its break: the last registry record with this title wins
OccupationCodeOfLast(occs, title) ==
    IF \E i \in 1..Len(occs) : occs[i].titulo = title
    THEN SomeText(occs[CHOOSE i \in 1..Len(occs) :
                          /\ occs[i].titulo = title
                          /\ \A j \in (i + 1)..Len(occs) : occs[j].titulo # title].codigo)
    ELSE NoText

\* the code of the first registry record with this title, None when there is none
OccupationCode(occs, title) ==
    IF \E i \in 1..Len(occs) : occs[i].titulo = title
    THEN SomeText(occs[CHOOSE i \in 1..Len(occs) :
                          /\ occs[i].titulo = title
                          /\ \A j \in 1..(i - 1) : occs[j].titulo # title].codigo)
    ELSE NoText

\* infer_occupations lines 191-206: one result per title; the confidence is read
\* off the mean, the score is the mean rounded to four decimals
FinalOccupation(occs, entry) ==
    LET total == SumScores(entry.scores)
        n == Len(entry.scores)
    IN  [titulo |-> SomeText(entry.titulo),
         codigo |-> OccupationCode(occs, entry.titulo),
         score |-> Round4(total, n),
         confidence |-> IF 10 * total > 8 * One * n THEN "high"
                        ELSE IF 10 * total > 7 * One * n THEN "medium"
                        ELSE "low"]

\* infer_occupations(resume_text, top_k, threshold) from the keywords that
\* extract_professional_context found in the text; failing is the set of
\* keywords on which the model's encode raises
InferOccupations(c, emb, occs, keywords, top_k, threshold, failing) ==
    IF keywords = <<>> THEN <<>>
    ELSE LET occupation_scores == OccupationScores(c, emb, keywords, threshold, failing, <<>>)
             final_occupations == [i \in 1..Len(occupation_scores) |->
                                      FinalOccupation(occs, occupation_scores[i])]
         IN  Slice(SortDesc(final_occupations), top_k)

\* infer_primary_occupation asking for two occupations and answering the last
InferPrimaryOccupationLastOfTwo(c, emb, occs, keywords, threshold, failing) ==
    LET inferred == InferOccupations(c, emb, occs, keywords, 2, threshold, failing)
    IN  IF inferred # <<>> THEN inferred[Len(inferred)]
        ELSE [titulo |-> NoText, codigo |-> NoText, score |-> 0, confidence |-> "low",
              error |-> "Nenhuma ocupação foi inferida"]

\* infer_primary_occupation(resume_text, threshold)
InferPrimaryOccupation(c, emb, occs, keywords, threshold, failing) ==
    LET inferred == InferOccupations(c, emb, occs, keywords, 1, threshold, failing)
    IN  IF inferred # <<>> THEN inferred[1]
        ELSE [titulo |-> NoText, codigo |-> NoText, score |-> 0, confidence |-> "low",
              error |-> "Nenhuma ocupação foi inferida"]

\* the list technical_keywords of _detect_resume_type, in the model's alphabet:
\* "b" and "cc"
technical_keywords == << <<"b">>, <<"c", "c">> >>

\* the list non_technical_keywords: "a", "cc" (in both lists, as 'arquiteto' is)
\* and "b a" (it contains a technical keyword, as 'engenheiro civil' does)
non_technical_keywords == << <<"a">>, <<"c", "c">>, <<"b", " ", "a">> >>

\* the score above which an occupation without keyword counts as technical (0.75)
TechnicalScore == (75 * One) \div 100

\* _detect_resume_type looking at the non-technical list first
DetectResumeTypeNonTechnicalFirst(occupation) ==
    IF ~occupation.titulo.some \/ occupation.titulo.text = <<>> THEN "unknown"
    ELSE LET titulo_lower == Lower(occupation.titulo.text)
         IN  IF \E i \in 1..Len(non_technical_keywords) :
                   Contains(titulo_lower, non_technical_keywords[i])
             THEN "non_technical"
             ELSE IF \E i \in 1..Len(technical_keywords) :
                        Contains(titulo_lower, technical_keywords[i])
             THEN "technical"
             ELSE IF occupation.score > TechnicalScore THEN "technical"
             ELSE "non_technical"

\* _detect_resume_type(occupation) on the dict infer_primary_occupation returns
DetectResumeType(occupation) ==
    IF ~occupation.titulo.some \/ occupation.titulo.text = <<>> THEN "unknown"
    ELSE LET titulo_lower == Lower(occupation.titulo.text)
         IN  IF \E i \in 1..Len(technical_keywords) :
                   Contains(titulo_lower, technical_keywords[i])
             THEN "technical"
             ELSE IF \E i \in 1..Len(non_technical_keywords) :
                        Contains(titulo_lower, non_technical_keywords[i])
             THEN "non_technical"
             ELSE IF occupation.score > TechnicalScore THEN "technical"
             ELSE "non_technical"

DetectResumeTypeCall(occupation) ==
    /\ last' = [op |-> "_detect_resume_type", occupation |-> occupation,
                result |-> DetectResumeType(occupation)]
    /\ repeated' = FALSE
    /\ UNCHANGED <<corpus, corpus_embeddings, ownerVars>>

\* limits and defaults of the /infer-occupation and /infer-primary-occupation
\* routes
InferRouteMaxTopK == 20
InferRouteDefaultTopK == 5
InferRouteDefaultThreshold == (65 * One) \div 100

\* POST /api/v1/infer-occupation with a valid resume_text
InferOccupationRoute(c, emb, occs, keywords, top_k, threshold, failing) ==
    LET k == IF top_k < 1 \/ top_k > InferRouteMaxTopK THEN InferRouteDefaultTopK ELSE top_k
        th == IF threshold < 0 \/ threshold > One THEN InferRouteDefaultThreshold
              ELSE threshold
        found == InferOccupations(c, emb, occs, keywords, k, th, failing)
    IN  [status |-> "success", code |-> 200,
         occupations_found |-> Len(found),
         occupations |-> found]

\* POST /api/v1/infer-primary-occupation with a valid resume_text
InferPrimaryOccupationRoute(c, emb, occs, keywords, threshold, failing) ==
    LET th == IF threshold < 0 \/ threshold > One THEN InferRouteDefaultThreshold
              ELSE threshold
    IN  [status |-> "success", code |-> 200,
         primary_occupation |-> InferPrimaryOccupation(c, emb, occs, keywords, th, failing)]

\* _load_occupations: one record per row of the occupations table
LoadOccupations(rows) ==
    [i \in 1..Len(rows) |-> [codigo |-> rows[i].CODIGO,
                             titulo |-> Lower(Strip(rows[i].TITULO))]]

\* SkillExtractionService(): a new service with a new matcher, its corpus built
\* from the dataset's skills when there are any
NewSkillExtractionService(all_skills, oracleOk) ==
    /\ service' = "SkillExtractionService"
    /\ occupations' = <<>>
    /\ corpus' = IF all_skills # <<>> THEN BuildCorpusList(all_skills) ELSE <<>>
    /\ corpus_embeddings' = IF all_skills # <<>> THEN EncodeTexts(corpus', oracleOk)
                            ELSE None
    /\ last' = [op |-> "SkillExtractionService", all_skills |-> all_skills,
                oracleOk |-> oracleOk]
    /\ repeated' = FALSE

\* SkillsMatchingService(): a new service with a new matcher, its corpus built
\* from the dataset's skills when there are any
NewSkillsMatchingService(all_skills, oracleOk) ==
    /\ service' = "SkillsMatchingService"
    /\ occupations' = <<>>
    /\ corpus' = IF all_skills # <<>> THEN BuildCorpusList(all_skills) ELSE <<>>
    /\ corpus_embeddings' = IF all_skills # <<>> THEN EncodeTexts(corpus', oracleOk)
                            ELSE None
    /\ last' = [op |-> "SkillsMatchingService", all_skills |-> all_skills,
                oracleOk |-> oracleOk]
    /\ repeated' = FALSE

\* a request to POST /api/v1/skills/match reaches the service
SkillsMatchRouteCall(unrecognized_skills, top_k, threshold, failing) ==
    /\ service = "SkillsMatchingService"
    /\ last' = [op |-> "skills/match", unrecognized_skills |-> unrecognized_skills,
                top_k |-> top_k, threshold |-> threshold, failing |-> failing,
                result |-> SkillsMatchRoute(corpus, corpus_embeddings, unrecognized_skills,
                                            top_k, threshold, failing)]
    /\ repeated' = FALSE
    /\ UNCHANGED <<corpus, corpus_embeddings, ownerVars>>

\* a request to POST /api/v1/skills/enrich reaches the service
EnrichRouteCall(skills, threshold, failing) ==
    /\ service = "SkillsMatchingService"
    /\ last' = [op |-> "skills/enrich", skills |-> skills, threshold |-> threshold,
                failing |-> failing,
                result |-> EnrichRoute(corpus, corpus_embeddings, skills, threshold,
                                       failing)]
    /\ repeated' = FALSE
    /\ UNCHANGED <<corpus, corpus_embeddings, ownerVars>>

\* a request to POST /api/v1/infer-occupation reaches the service
InferOccupationRouteCall(keywords, top_k, threshold, failing) ==
    /\ service = "OccupationInferenceService"
    /\ last' = [op |-> "infer-occupation", keywords |-> keywords, top_k |-> top_k,
                threshold |-> threshold, failing |-> failing,
                result |-> InferOccupationRoute(corpus, corpus_embeddings, occupations,
                                                keywords, top_k, threshold, failing)]
    /\ repeated' = FALSE
    /\ UNCHANGED <<corpus, corpus_embeddings, ownerVars>>

\* a request to POST /api/v1/infer-primary-occupation reaches the service
InferPrimaryOccupationRouteCall(keywords, threshold, failing) ==
    /\ service = "OccupationInferenceService"
    /\ last' = [op |-> "infer-primary-occupation", keywords |-> keywords,
                threshold |-> threshold, failing |-> failing,
                result |-> InferPrimaryOccupationRoute(corpus, corpus_embeddings,
                                                       occupations, keywords, threshold,
                                                       failing)]
    /\ repeated' = FALSE
    /\ UNCHANGED <<corpus, corpus_embeddings, ownerVars>>

\* OccupationInferenceService(): a new service with a new matcher, its corpus
\* built from the titles of the occupations table when it has rows
NewOccupationInferenceService(rows, oracleOk) ==
    /\ service' = "OccupationInferenceService"
    /\ occupations' = LoadOccupations(rows)
    /\ corpus' = IF occupations' # <<>>
                 THEN BuildCorpusList([i \in 1..Len(occupations') |-> occupations'[i].titulo])
                 ELSE <<>>
    /\ corpus_embeddings' = IF occupations' # <<>> THEN EncodeTexts(corpus', oracleOk)
                            ELSE None
    /\ last' = [op |-> "OccupationInferenceService", rows |-> rows,
                oracleOk |-> oracleOk]
    /\ repeated' = FALSE

MatchSkillsWithBertCall(skills, threshold, top_k, failing) ==
    /\ service = "SkillExtractionService"
    /\ last' = [op |-> "match_skills_with_bert", skills |-> skills,
                threshold |-> threshold, top_k |-> top_k, failing |-> failing,
                result |-> MatchSkillsWithBert(corpus, corpus_embeddings, skills,
                                               threshold, top_k, failing)]
    /\ repeated' = FALSE
    /\ UNCHANGED <<corpus, corpus_embeddings, ownerVars>>

\* a request to POST /api/v1/extract reaches the service
ExtractRouteCall(all_skills, threshold, top_k, failing) ==
    /\ service = "SkillExtractionService"
    /\ last' = [op |-> "extract", all_skills |-> all_skills, threshold |-> threshold,
                top_k |-> top_k, failing |-> failing,
                result |-> ExtractRoute(corpus, corpus_embeddings, all_skills,
                                        threshold, top_k, failing)]
    /\ repeated' = FALSE
    /\ UNCHANGED <<corpus, corpus_embeddings, ownerVars>>

\* extract_resume_skills(resume_text, threshold, top_k); all_skills is the order
\* in which list(set(regex_skills + llm_skills)) hands out the union
ExtractResumeSkillsCall(resume_text, all_skills, threshold, top_k, failing) ==
    /\ service = "SkillExtractionService"
    /\ IsListOfSet(all_skills, extract_skills_via_regex(resume_text)
                                  \cup extract_skills_via_llm(resume_text))
    /\ last' = [op |-> "extract_resume_skills", resume_text |-> resume_text,
                all_skills |-> all_skills, threshold |-> threshold, top_k |-> top_k,
                failing |-> failing,
                result |-> ExtractResumeSkills(corpus, corpus_embeddings, all_skills,
                                               threshold, top_k, failing)]
    /\ repeated' = FALSE
    /\ UNCHANGED <<corpus, corpus_embeddings, ownerVars>>

CalculateProfileMatchCall(candidate_skills, job_requirements, failing) ==
    /\ service = "SkillExtractionService"
    /\ last' = [op |-> "calculate_profile_match", candidate_skills |-> candidate_skills,
                job_requirements |-> job_requirements, failing |-> failing,
                queries |-> ProfileQueries(corpus, corpus_embeddings, candidate_skills,
                                           job_requirements, failing),
                result |-> CalculateProfileMatch(corpus, corpus_embeddings,
                                                 candidate_skills, job_requirements,
                                                 failing)]
    /\ repeated' = FALSE
    /\ UNCHANGED <<corpus, corpus_embeddings, ownerVars>>

InferOccupationsCall(keywords, top_k, threshold, failing) ==
    /\ service = "OccupationInferenceService"
    /\ last' = [op |-> "infer_occupations", keywords |-> keywords, top_k |-> top_k,
                threshold |-> threshold, failing |-> failing,
                result |-> InferOccupations(corpus, corpus_embeddings, occupations,
                                            keywords, top_k, threshold, failing)]
    /\ repeated' = FALSE
    /\ UNCHANGED <<corpus, corpus_embeddings, ownerVars>>

InferPrimaryOccupationCall(keywords, threshold, failing) ==
    /\ service = "OccupationInferenceService"
    /\ last' = [op |-> "infer_primary_occupation", keywords |-> keywords,
                threshold |-> threshold, failing |-> failing,
                result |-> InferPrimaryOccupation(corpus, corpus_embeddings, occupations,
                                                  keywords, threshold, failing)]
    /\ repeated' = FALSE
    /\ UNCHANGED <<corpus, corpus_embeddings, ownerVars>>

----------------------------------------------------------------------------
(* The lazily created service singletons of the routes *)

Threads == 1..NThreads

\* get_extraction_service, get_occupation_service (routes/extraction.py) and
\* get_service (routes/skills.py), named by the global each one guards
Getters == {"_extraction_service", "_occupation_service", "_service_instance"}

\* a module-level reference that is still None; an object is named by the
\* thread whose constructor call created it
NoObject == 0

\* what get_all_skills hands the constructor: the terms found in the dataset
\* files, lowercased, stripped, longer than two characters, distinct and sorted
Datasets ==
    { <<>>,
      << <<"a", " ", " ", "b">>, <<"a", " ", "b">> >>,
      << <<"b", " ", "a">> >> }

\* no object: thread t has not called the constructor of this service
Absent ==
    [exists |-> FALSE, all_skills |-> <<>>, corpus |-> <<>>,
     corpus_embeddings |-> None, builds |-> 0]

\* the service object a constructor has just created: SkillsMatcher.__init__ has
\* run (corpus = [], corpus_embeddings = None), build_corpus has not
NewObject(all_skills) ==
    [exists |-> TRUE, all_skills |-> all_skills, corpus |-> <<>>,
     corpus_embeddings |-> None, builds |-> 0]

SingletonInit ==
    /\ services = [g \in Getters |-> NoObject]
    /\ heap = [g \in Getters |-> [t \in Threads |-> Absent]]
    /\ pc = [t \in Threads |-> "idle"]
    /\ target = [t \in Threads |-> "_service_instance"]
    /\ returned = [g \in Getters |-> {}]

\* nothing has used getter g yet
Untouched(g) ==
    /\ services[g] = NoObject
    /\ returned[g] = {}
    /\ \A t \in Threads : ~heap[g][t].exists /\ (pc[t] # "idle" => target[t] # g)

\* a request handler calls one of the getters.  The three getters share no
\* state (each guards its own global and builds its own objects), so a
\* behaviour follows the requests to one of them
Request(t, g) ==
    /\ pc[t] = "idle"
    /\ \A h \in Getters \ {g} : Untouched(h)
    /\ pc' = [pc EXCEPT ![t] = "test"]
    /\ target' = [target EXCEPT ![t] = g]
    /\ UNCHANGED <<services, heap, returned>>

\* `if _service is None:`
TestNone(t) ==
    /\ pc[t] = "test"
    /\ pc' = [pc EXCEPT ![t] = IF services[target[t]] = NoObject THEN "new" ELSE "return"]
    /\ UNCHANGED <<services, heap, target, returned>>

\* a getter that stores the new object in the global before its constructor
\* has built the corpus
ConstructPublishing(t, all_skills) ==
    /\ pc[t] = "new"
    /\ heap' = [heap EXCEPT ![target[t]][t] = NewObject(all_skills)]
    /\ services' = [services EXCEPT ![target[t]] = t]
    /\ pc' = [pc EXCEPT ![t] = IF all_skills # <<>> THEN "build" ELSE "assign"]
    /\ UNCHANGED <<target, returned>>

\* the constructor up to `if all_skills:` (CBODataLoader(), SkillsMatcher(),
\* get_all_skills()); with an empty dataset it skips build_corpus and returns
Construct(t, all_skills) ==
    /\ pc[t] = "new"
    /\ heap' = [heap EXCEPT ![target[t]][t] = NewObject(all_skills)]
    /\ pc' = [pc EXCEPT ![t] = IF all_skills # <<>> THEN "build" ELSE "assign"]
    /\ UNCHANGED <<services, target, returned>>

\* the constructor raises (the model or the dataset cannot be loaded): the
\* exception leaves the getter, the global stays as it was
ConstructRaises(t) ==
    /\ pc[t] = "new"
    /\ pc' = [pc EXCEPT ![t] = "idle"]
    /\ UNCHANGED <<services, heap, target, returned>>

\* build_corpus lines 80-81 inside the constructor: self.corpus is assigned
BuildAssignCorpus(t) ==
    /\ pc[t] = "build"
    /\ heap' = [heap EXCEPT ![target[t]][t].corpus =
                                BuildCorpusList(heap[target[t]][t].all_skills)]
    /\ pc' = [pc EXCEPT ![t] = "encode"]
    /\ UNCHANGED <<services, target, returned>>

\* build_corpus line 84 inside the constructor: self.corpus_embeddings is assigned
\* and build_corpus returns
BuildAssignEmbeddings(t, oracleOk) ==
    /\ pc[t] = "encode"
    /\ heap' = [heap EXCEPT
                  ![target[t]][t].corpus_embeddings =
                      EncodeTexts(heap[target[t]][t].corpus, oracleOk),
                  ![target[t]][t].builds = @ + 1]
    /\ pc' = [pc EXCEPT ![t] = "assign"]
    /\ UNCHANGED <<services, target, returned>>

\* `_service = Service()`: the constructor has returned, the global is assigned
AssignGlobal(t) ==
    /\ pc[t] = "assign"
    /\ services' = [services EXCEPT ![target[t]] = t]
    /\ pc' = [pc EXCEPT ![t] = "return"]
    /\ UNCHANGED <<heap, target, returned>>

\* `return _service`: the caller receives what the global holds now
ReturnGlobal(t) ==
    /\ pc[t] = "return"
    /\ returned' = [returned EXCEPT ![target[t]] = @ \cup {services[target[t]]}]
    /\ pc' = [pc EXCEPT ![t] = "idle"]
    /\ UNCHANGED <<services, heap, target>>

----------------------------------------------------------------------------
(* POST /api/v1/analyze-resume *)

\* defaults of the route's two thresholds (0.65 and 0.75)
AnalyzeDefaultThresholdOccupation == (65 * One) \div 100
AnalyzeDefaultThresholdSkills == (75 * One) \div 100

\* top_k the route passes to extract_resume_skills
AnalyzeSkillsTopK == 1

\* the service object a constructor returns: the corpus is built when the
\* dataset gave it terms
Constructed(terms, oracleOk) ==
    IF terms = <<>> THEN NewObject(terms)
    ELSE [exists |-> TRUE, all_skills |-> terms, corpus |-> BuildCorpusList(terms),
          corpus_embeddings |-> EncodeTexts(BuildCorpusList(terms), oracleOk),
          builds |-> 1]

\* no request is being handled
NoRequest == \A u \in Threads : pc[u] = "idle"

\* the handler is entered with a valid resume_text, in which
\* extract_professional_context will find `keywords` and the two skill passes
\* `mentions`; the two thresholds are defaulted when out of range
AnalyzeRequest(t, keywords, mentions, threshold_occupation, threshold_skills) ==
    /\ NoRequest
    /\ pc' = [pc EXCEPT ![t] = "infer"]
    /\ last' = [op |-> "analyze-resume", keywords |-> keywords, mentions |-> mentions,
                threshold_occupation |->
                    IF threshold_occupation < 0 \/ threshold_occupation > One
                    THEN AnalyzeDefaultThresholdOccupation ELSE threshold_occupation,
                threshold_skills |->
                    IF threshold_skills < 0 \/ threshold_skills > One
                    THEN AnalyzeDefaultThresholdSkills ELSE threshold_skills,
                inferred |-> FALSE,
                primary_occupation |-> [titulo |-> NoText, codigo |-> NoText, score |-> 0,
                                        confidence |-> "low"],
                classified |-> FALSE, resume_type |-> "unknown",
                extracted |-> FALSE,
                response |-> [status |-> "none"]]
    /\ UNCHANGED <<services, heap, target, returned, corpus, corpus_embeddings,
                   service, occupations, repeated>>

\* PASSO 1, lines 542-546: get_occupation_service(), which constructs the
\* service from the occupations table on first use, then
\* infer_primary_occupation
AnalyzeInfer(t, rows, oracleOk) ==
    LET g == "_occupation_service"
        first == services[g] = NoObject
        occs == IF first THEN LoadOccupations(rows) ELSE occupations
        object == IF first
                  THEN Constructed([i \in 1..Len(occs) |-> occs[i].titulo], oracleOk)
                  ELSE heap[g][services[g]]
    IN  /\ pc[t] = "infer"
        /\ services' = IF first THEN [services EXCEPT ![g] = t] ELSE services
        /\ heap' = IF first THEN [heap EXCEPT ![g][t] = object] ELSE heap
        /\ occupations' = occs
        /\ last' = [last EXCEPT
                       !.inferred = TRUE,
                       !.primary_occupation =
                           InferPrimaryOccupation(object.corpus, object.corpus_embeddings,
                                                  occs, last.keywords,
                                                  last.threshold_occupation, {})]
        /\ pc' = [pc EXCEPT ![t] = "classify"]
        /\ UNCHANGED <<target, returned, corpus, corpus_embeddings, service, repeated>>

\* PASSO 2, line 551: _detect_resume_type(primary_occupation)
AnalyzeClassify(t) ==
    /\ pc[t] = "classify"
    /\ last' = [last EXCEPT !.classified = TRUE,
                            !.resume_type = DetectResumeType(last.primary_occupation)]
    /\ pc' = [pc EXCEPT ![t] = "skills"]
    /\ UNCHANGED <<services, heap, target, returned, corpus, corpus_embeddings,
                   service, occupations, repeated>>

\* PASSO 3 taking the technical branch whatever the resume type is
AnalyzeSkillsAlways(t, ds, oracleOk, all_skills) ==
    LET g == "_extraction_service"
        first == services[g] = NoObject
        object == IF first THEN Constructed(ds, oracleOk) ELSE heap[g][services[g]]
        found == extract_skills_via_regex(last.mentions)
                    \cup extract_skills_via_llm(last.mentions)
        skills_result == ExtractResumeSkills(object.corpus, object.corpus_embeddings,
                                             all_skills, last.threshold_skills,
                                             AnalyzeSkillsTopK, {})
    IN  /\ pc[t] = "skills"
        /\ IsListOfSet(all_skills, found)
        /\ services' = IF first THEN [services EXCEPT ![g] = t] ELSE services
        /\ heap' = IF first THEN [heap EXCEPT ![g][t] = object] ELSE heap
        /\ last' = [last EXCEPT
                       !.extracted = TRUE,
                       !.response =
                           [status |-> "success", code |-> 200,
                            resume_type |-> last.resume_type,
                            primary_occupation |-> last.primary_occupation,
                            skills |-> skills_result.skills,
                            total_skills_found |-> skills_result.total_skills_found,
                            successful_matches |-> skills_result.successful_matches]]
        /\ pc' = [pc EXCEPT ![t] = "idle"]
        /\ UNCHANGED <<target, returned, corpus, corpus_embeddings, service, occupations,
                       repeated>>

\* PASSO 3, lines 556-580: for a technical resume get_extraction_service(),
\* which constructs the service from the dataset on first use, then
\* extract_resume_skills; for any other an empty skills list; the response
\* is returned
AnalyzeSkills(t, ds, oracleOk, all_skills) ==
    LET g == "_extraction_service"
        technical == last.resume_type = "technical"
        first == technical /\ services[g] = NoObject
        object == IF first THEN Constructed(ds, oracleOk)
                  ELSE IF technical THEN heap[g][services[g]]
                  ELSE Absent
        found == extract_skills_via_regex(last.mentions)
                    \cup extract_skills_via_llm(last.mentions)
        skills_result == ExtractResumeSkills(object.corpus, object.corpus_embeddings,
                                             all_skills, last.threshold_skills,
                                             AnalyzeSkillsTopK, {})
    IN  /\ pc[t] = "skills"
        /\ IF technical THEN IsListOfSet(all_skills, found) ELSE all_skills = <<>>
        /\ services' = IF first THEN [services EXCEPT ![g] = t] ELSE services
        /\ heap' = IF first THEN [heap EXCEPT ![g][t] = object] ELSE heap
        /\ last' = [last EXCEPT
                       !.extracted = technical,
                       !.response =
                           IF technical
                           THEN [status |-> "success", code |-> 200,
                                 resume_type |-> last.resume_type,
                                 primary_occupation |-> last.primary_occupation,
                                 skills |-> skills_result.skills,
                                 total_skills_found |-> skills_result.total_skills_found,
                                 successful_matches |-> skills_result.successful_matches]
                           ELSE [status |-> "success", code |-> 200,
                                 resume_type |-> last.resume_type,
                                 primary_occupation |-> last.primary_occupation,
                                 skills |-> <<>>,
                                 note |-> "Skills não foram extraídas"]]
        /\ pc' = [pc EXCEPT ![t] = "idle"]
        /\ UNCHANGED <<target, returned, corpus, corpus_embeddings, service, occupations,
                       repeated>>

\* the constructor of the service a getter has to create raises (the model or
\* the dataset cannot be loaded): the handler's except branch answers 500
AnalyzeRaises(t) ==
    /\ \/ pc[t] = "infer" /\ services["_occupation_service"] = NoObject
       \/ /\ pc[t] = "skills"
          /\ last.resume_type = "technical"
          /\ services["_extraction_service"] = NoObject
    /\ last' = [last EXCEPT !.response = [status |-> "error", code |-> 500]]
    /\ pc' = [pc EXCEPT ![t] = "idle"]
    /\ UNCHANGED <<services, heap, target, returned, corpus, corpus_embeddings,
                   service, occupations, repeated>>

----------------------------------------------------------------------------
(* Specifications *)

\* the lists of raw terms build_corpus is called with
TermLists == SeqsUpTo(RawTerms, MaxTerms)

\* the query lists batch_find_similar is called with
BatchLists == SeqsUpTo(Queries, 1) \cup {<< <<"b">>, <<"a", " ", "b">> >>}

\* the threshold batch_find_similar is called with (0.6)
BatchThresholds == {(6 * One) \div 10}

\* no request thread runs: the specifications of one matcher leave the
\* singletons out
SingletonIdle ==
    /\ services = <<>>
    /\ heap = <<>>
    /\ pc = <<>>
    /\ target = <<>>
    /\ returned = <<>>

\* One SkillsMatcher, called sequentially: build_corpus and find_similar
Init ==
    /\ MatcherInit
    /\ SingletonIdle

Next ==
    \/ \E skills \in TermLists, ok \in BOOLEAN :
          BuildCorpus(skills, ok) /\ UNCHANGED singletonVars
    \/ \E q \in Queries, k \in TopKs, t \in Thresholds, ok \in BOOLEAN :
          FindSimilarCall(q, k, t, ok) /\ UNCHANGED singletonVars

Spec == Init /\ [][Next]_vars

\* Request threads racing through the getters of the three service singletons
NextSingleton ==
    \E t \in Threads :
       \/ \E g \in Getters : Request(t, g) /\ UNCHANGED matcherVars
       \/ TestNone(t) /\ UNCHANGED matcherVars
       \/ \E ds \in Datasets : Construct(t, ds) /\ UNCHANGED matcherVars
       \/ ConstructRaises(t) /\ UNCHANGED matcherVars
       \/ BuildAssignCorpus(t) /\ UNCHANGED matcherVars
       \/ \E ok \in BOOLEAN : BuildAssignEmbeddings(t, ok) /\ UNCHANGED matcherVars
       \/ AssignGlobal(t) /\ UNCHANGED matcherVars
       \/ ReturnGlobal(t) /\ UNCHANGED matcherVars

InitSingleton ==
    /\ MatcherInit
    /\ SingletonInit

SpecSingleton == InitSingleton /\ [][NextSingleton]_vars

\* the thresholds the services' operations are called with (0.6)
OpsThresholds == {(6 * One) \div 10}

\* the rows of the occupations table
OccupationTables ==
    { <<>>,
      << [CODIGO |-> <<"1">>, TITULO |-> <<"A", " ">>],
         [CODIGO |-> <<"2">>, TITULO |-> <<"a", " ", "b">>],
         [CODIGO |-> <<"3">>, TITULO |-> <<"a">>] >> }

\* skills found in a resume, handed to match_skills_with_bert
FoundSkills == { <<" ">>, <<"a", " ", "b", " ">>, <<"a">>, <<"c">> }

\* list(set(regex_skills + llm_skills)): the skills found in a resume, none
\* blank, none twice
ResumeSkillLists ==
    {ks \in SeqsUpTo(FoundSkills \ {<<" ">>}, 2) :
        \A i, j \in 1..Len(ks) : ks[i] = ks[j] => i = j}

\* thresholds a request body may carry (0.6 and, out of range, -1.0)
RouteThresholds == {(6 * One) \div 10, 0 - One}

\* candidate skills and job requirements handed to calculate_profile_match
CandidateSkills == { <<"A", " ", " ", "b">>, <<"c">>, <<"b", " ", "a">> }
JobRequirements == { <<"b", " ", " ", "a">>, <<"B">> }

\* keywords extract_professional_context can return: lowercase, stripped, longer
\* than three characters
Keywords ==
    { <<"a", " ", " ", "b">>, <<"b", " ", " ", "a">>, <<"a", " ", " ", "c">>,
      <<"c", "c", "c", "c">> }

\* list(set(...)): the keyword lists hold no keyword twice
KeywordLists == {ks \in SeqsUpTo(Keywords, 2) : \A i, j \in 1..Len(ks) : ks[i] = ks[j] => i = j}

\* the sets of texts on which the model's encode raises
Failing(S) == {{}} \cup {{x} : x \in S}

\* A service and its matcher, called sequentially: every operation that reads
\* the corpus index
NextOps ==
    \/ \E ds \in Datasets, ok \in BOOLEAN :
          NewSkillExtractionService(ds, ok) /\ UNCHANGED singletonVars
    \/ \E rows \in OccupationTables, ok \in BOOLEAN :
          NewOccupationInferenceService(rows, ok) /\ UNCHANGED singletonVars
    \/ \E q \in Queries, k \in TopKs, t \in OpsThresholds, ok \in BOOLEAN :
          FindSimilarCall(q, k, t, ok) /\ UNCHANGED singletonVars
    \/ \E qs \in BatchLists, t \in BatchThresholds, f \in Failing({<<"b">>}) :
          BatchFindSimilarCall(qs, MaxTopK, t, f) /\ UNCHANGED singletonVars
    \/ \E t1 \in Queries, t2 \in Queries, ok \in BOOLEAN :
          CalculateSimilarityCall(t1, t2, ok) /\ UNCHANGED singletonVars
    \/ \E q \in Queries, t \in OpsThresholds, ok \in BOOLEAN :
          ExpandSkillsCall(q, t, ok) /\ UNCHANGED singletonVars
    \/ \E skills \in SeqsUpTo(FoundSkills, 2), t \in OpsThresholds, k \in TopKs,
          f \in Failing({<<"c">>}) :
          MatchSkillsWithBertCall(skills, t, k, f) /\ UNCHANGED singletonVars
    \/ \E ks \in ResumeSkillLists, t \in RouteThresholds, k \in TopKs :
          ExtractRouteCall(ks, t, k, {}) /\ UNCHANGED singletonVars
    \/ \E cs \in SeqsUpTo(CandidateSkills, 1), reqs \in SeqsUpTo(JobRequirements, 1) :
          CalculateProfileMatchCall(cs, reqs, {}) /\ UNCHANGED singletonVars
    \/ \E ks \in SeqsUpTo(Keywords, 1), k \in TopKs, t \in OpsThresholds :
          InferOccupationsCall(ks, k, t, {}) /\ UNCHANGED singletonVars
    \/ \E ks \in SeqsUpTo(Keywords, 1), t \in OpsThresholds :
          InferPrimaryOccupationCall(ks, t, {}) /\ UNCHANGED singletonVars

SpecOps == Init /\ [][NextOps]_vars

\* the candidate lists and requirement lists calculate_profile_match is called
\* with; one list has five requirements
CandidateLists == SeqsUpTo(CandidateSkills, 1) \cup {<< <<"A", " ", " ", "b">>, <<"c">> >>}
RequirementLists ==
    SeqsUpTo(JobRequirements, 2) \cup {<< <<"B">>, <<"B">>, <<"B">>, <<"x">>, <<"x">> >>}

\* A SkillExtractionService answering calculate_profile_match
NextProfile ==
    \/ \E ds \in Datasets, ok \in BOOLEAN :
          NewSkillExtractionService(ds, ok) /\ UNCHANGED singletonVars
    \/ \E cs \in CandidateLists, reqs \in RequirementLists,
          f \in Failing({<<"b", " ", " ", "a">>}) :
          CalculateProfileMatchCall(cs, reqs, f) /\ UNCHANGED singletonVars

SpecProfile == Init /\ [][NextProfile]_vars

\* An OccupationInferenceService answering infer_occupations and
\* infer_primary_occupation
NextInfer ==
    \/ \E rows \in OccupationTables, ok \in BOOLEAN :
          NewOccupationInferenceService(rows, ok) /\ UNCHANGED singletonVars
    \/ \E ks \in KeywordLists, k \in TopKs, t \in OpsThresholds,
          f \in Failing({<<"b", " ", " ", "a">>}) :
          InferOccupationsCall(ks, k, t, f) /\ UNCHANGED singletonVars
    \/ \E ks \in KeywordLists, t \in OpsThresholds,
          f \in Failing({<<"b", " ", " ", "a">>}) :
          InferPrimaryOccupationCall(ks, t, f) /\ UNCHANGED singletonVars

SpecInfer == Init /\ [][NextInfer]_vars

\* the items of a batch: three terms, a blank one and one that is not a str
BatchItems == { <<"a">>, <<"A", " ">>, <<"c">>, <<" ">>, NotAString }

\* the batches handed to /skills/match and to match_skills_with_bert
Batches == SeqsUpTo(BatchItems, 2) \cup {<< <<"a">>, NotAString, <<"c">> >>}

\* The two batch operations on the services that own them
NextBatch ==
    \/ \E ds \in Datasets, ok \in BOOLEAN :
          NewSkillsMatchingService(ds, ok) /\ UNCHANGED singletonVars
    \/ \E ds \in Datasets, ok \in BOOLEAN :
          NewSkillExtractionService(ds, ok) /\ UNCHANGED singletonVars
    \/ \E items \in Batches, k \in TopKs, t \in RouteThresholds, f \in Failing({<<"c">>}) :
          SkillsMatchRouteCall(items, k, t, f) /\ UNCHANGED singletonVars
    \/ \E items \in Batches, k \in TopKs, t \in OpsThresholds, f \in Failing({<<"c">>}) :
          MatchSkillsWithBertCall(items, t, k, f) /\ UNCHANGED singletonVars

SpecBatch == Init /\ [][NextBatch]_vars

\* the thresholds a request body may carry: 0.6, 1.0 and, out of range, -1.0
\* and 2.0
BodyThresholds == {(6 * One) \div 10, One, 0 - One, 2 * One}

\* the skill lists handed to /skills/match and /skills/enrich
SkillLists == SeqsUpTo({ <<"a">>, <<"A", " ">>, <<"c">> }, 1) \cup {<< <<"a">>, <<"c">> >>}

\* The request boundaries that take a similarity threshold, each on the
\* service it uses
NextRoutes ==
    \/ \E ds \in Datasets, ok \in BOOLEAN :
          NewSkillsMatchingService(ds, ok) /\ UNCHANGED singletonVars
    \/ \E ds \in Datasets, ok \in BOOLEAN :
          NewSkillExtractionService(ds, ok) /\ UNCHANGED singletonVars
    \/ \E rows \in OccupationTables, ok \in BOOLEAN :
          NewOccupationInferenceService(rows, ok) /\ UNCHANGED singletonVars
    \/ \E ks \in ResumeSkillLists, t \in BodyThresholds :
          ExtractRouteCall(ks, t, 1, {}) /\ UNCHANGED singletonVars
    \/ \E ks \in SeqsUpTo(Keywords, 1), k \in TopKs, t \in BodyThresholds :
          InferOccupationRouteCall(ks, k, t, {}) /\ UNCHANGED singletonVars
    \/ \E ks \in SeqsUpTo(Keywords, 1), t \in BodyThresholds :
          InferPrimaryOccupationRouteCall(ks, t, {}) /\ UNCHANGED singletonVars
    \/ \E items \in SkillLists, k \in TopKs, t \in BodyThresholds :
          SkillsMatchRouteCall(items, k, t, {}) /\ UNCHANGED singletonVars
    \/ \E items \in SkillLists, t \in BodyThresholds :
          EnrichRouteCall(items, t, {}) /\ UNCHANGED singletonVars

SpecRoutes == Init /\ [][NextRoutes]_vars

\* the occupations tables of the analyze-resume model: one more, whose only
\* title has none of the keywords of _detect_resume_type
AnalyzeTables ==
    OccupationTables \cup {<< [CODIGO |-> <<"4">>, TITULO |-> <<"c", " ", "c">>] >>}

\* what the resume texts of the analyze-resume model hold: the keywords of the
\* professional context and the mentions of skills
AnalyzeKeywords == SeqsUpTo(Keywords, 1)
AnalyzeMentions ==
    { <<>>,
      << [phrase |-> FALSE, term |-> <<"c", "c", "c", "c">>] >>,
      << [phrase |-> TRUE, term |-> <<"a", " ", " ", "b">>],
         [phrase |-> FALSE, term |-> <<"A", " ">>] >> }

\* the candidate skills the two passes can find in those texts
AnalyzeFound ==
    UNION { extract_skills_via_regex(ms) \cup extract_skills_via_llm(ms) :
            ms \in AnalyzeMentions }

\* Requests to /analyze-resume, handled one at a time by any of the threads
NextAnalyze ==
    \E t \in Threads :
       \/ \E ks \in AnalyzeKeywords, ms \in AnalyzeMentions,
             to \in RouteThresholds, ts \in RouteThresholds :
             AnalyzeRequest(t, ks, ms, to, ts)
       \/ \E rows \in AnalyzeTables, ok \in BOOLEAN : AnalyzeInfer(t, rows, ok)
       \/ AnalyzeClassify(t)
       \/ \E ds \in Datasets, ok \in BOOLEAN, all_skills \in SeqsUpTo(AnalyzeFound, 2) :
             AnalyzeSkills(t, ds, ok, all_skills)
       \/ AnalyzeRaises(t)

SpecAnalyze == InitSingleton /\ [][NextAnalyze]_vars

\* the mentions of a term in a resume
Mentions ==
    [phrase : BOOLEAN,
     term : { <<"c", "c", "c", "c">>, <<"C", "c", "c", "c">>, <<"a", " ", " ", "b">>,
              <<"A", " ">> }]

\* the resume texts extract_resume_skills is called with
ResumeTexts == SeqsUpTo(Mentions, 2)

\* A SkillExtractionService answering extract_resume_skills
NextExtract ==
    \/ \E ds \in Datasets, ok \in BOOLEAN :
          NewSkillExtractionService(ds, ok) /\ UNCHANGED singletonVars
    \/ \E text \in ResumeTexts, t \in OpsThresholds :
          LET found == extract_skills_via_regex(text) \cup extract_skills_via_llm(text)
          IN  \E all_skills \in SeqsUpTo(found, Cardinality(found)) :
                 ExtractResumeSkillsCall(text, all_skills, t, 1, {}) /\ UNCHANGED singletonVars

SpecExtract == Init /\ [][NextExtract]_vars

\* the occupation dicts _detect_resume_type is called with: no title or a title
\* of up to three characters, and a score of 0, 0.75, 0.7501 or 1.0
ClassifiedTitles == {NoText} \cup {SomeText(t) : t \in SeqsUpTo({"a", "B", "c", " "}, 3)}
ClassifiedScores == {0, TechnicalScore, TechnicalScore + One \div 10000, One}

\* _detect_resume_type, called on one occupation after another
NextClassify ==
    \E titulo \in ClassifiedTitles, score \in ClassifiedScores :
       DetectResumeTypeCall([titulo |-> titulo, score |-> score]) /\ UNCHANGED singletonVars

SpecClassify == Init /\ [][NextClassify]_vars

----------------------------------------------------------------------------
(* Properties *)


Min(a, b) == IF a <= b THEN a ELSE b

LastIsFind == last.op = "find_similar"

\* the stored vectors are parallel to the vocabulary and the query was encoded:
\* only then has an entry a similarity to the query
Comparable == corpus_embeddings.some /\ Len(corpus_embeddings.arr) = Len(corpus) /\ last.oracleOk

\* similarity of vocabulary entry i to the query of the last find_similar call
ScoreOf(i) == CosSim(Encode(Normalize(last.query)), corpus_embeddings.arr[i])

\* the entries that clear the threshold of the last find_similar call
Clearing == IF Comparable THEN {i \in 1..Len(corpus) : ScoreOf(i) >= last.threshold} ELSE {}

\* position of a returned text in the vocabulary (0 when it is not an entry)
Pos(text) == IF \E i \in 1..Len(corpus) : corpus[i] = text
             THEN CHOOSE i \in 1..Len(corpus) : corpus[i] = text
             ELSE 0

\* the positions the last find_similar call returned
Returned == {Pos(last.result[n].text) : n \in 1..Len(last.result)}

\* C1 as claimed: under concurrent first access every service is constructed
\* once, build_corpus runs once per service and all callers of a getter
\* receive the same instance.
C1_ConstructedOnce ==
    \A g \in Getters :
       /\ Cardinality({t \in Threads : heap[g][t].exists}) <= 1
       /\ Cardinality({t \in Threads : heap[g][t].builds > 0}) <= 1
       /\ Cardinality(returned[g]) <= 1

\* the operations that build the index: build_corpus, alone or inside the
\* constructor of a service
IsBuild(op) == op \in {"build_corpus", "SkillExtractionService", "OccupationInferenceService"}

\* C2: no find_similar, batch_find_similar, calculate_similarity, expand_skills,
\* match_skills_with_bert (map), calculate_profile_match (match),
\* infer_occupations (infer) or infer_primary_occupation (infer_primary) call
\* changes the vocabulary list or the embedding array.
C2_IndexUnchanged ==
    [][~IsBuild(last'.op) => (corpus' = corpus /\ corpus_embeddings' = corpus_embeddings)]_vars

\* C2 witness: a read operation of a service has answered from a built index
C2_Witness ==
    /\ IsCorpusReady(corpus, corpus_embeddings)
    /\ last.op = "infer_primary_occupation"
    /\ last.result.titulo.some

\* C3: for a ready index find_similar returns exactly the entries whose
\* similarity clears the threshold, by score descending, cut to top_k: every
\* returned pair is a distinct vocabulary entry with its own score, that score
\* is >= threshold, scores never increase along the result, the length is
\* min(top_k, number of clearing entries), and no omitted clearing entry scores
\* higher than a returned one.  When the oracle gives no similarity (it raised
\* on the query, or no vector is stored for the entries) no entry clears the
\* threshold and the result is empty.
C3_FindSimilarResult ==
    (LastIsFind /\ IsCorpusReady(corpus, corpus_embeddings)) =>
       LET r == last.result
       IN  /\ \A n \in 1..Len(r) :
                /\ Pos(r[n].text) \in Clearing
                /\ r[n].score = ScoreOf(Pos(r[n].text))
                /\ r[n].score >= last.threshold
           /\ \A n \in 1..Len(r), m \in 1..Len(r) : n # m => r[n].text # r[m].text
           /\ \A n \in 1..(Len(r) - 1) : r[n].score >= r[n + 1].score
           /\ Len(r) = Min(last.top_k, Cardinality(Clearing))
           /\ \A i \in Clearing \ Returned, n \in 1..Len(r) : ScoreOf(i) <= r[n].score

\* C3 witness: a call on a ready index whose two entries both clear the
\* threshold and come back reordered, the later entry first with the higher score
C3_Witness ==
    /\ LastIsFind /\ IsCorpusReady(corpus, corpus_embeddings)
    /\ Len(last.result) = 2
    /\ Cardinality(Clearing) = 2
    /\ Pos(last.result[1].text) > Pos(last.result[2].text)
    /\ last.result[1].score > last.result[2].score

\* C4: entries with equal score come out in vocabulary (insertion) order, and
\* of two equally scored entries the earlier one survives the cut to top_k.
C4_StableTies ==
    LastIsFind =>
       LET r == last.result
       IN  /\ \A n \in 1..Len(r), m \in 1..Len(r) :
                (n < m /\ r[n].score = r[m].score) => Pos(r[n].text) < Pos(r[m].text)
           /\ \A i \in Clearing \ Returned, n \in 1..Len(r) :
                ScoreOf(i) = r[n].score => Pos(r[n].text) < i

\* C4 witness: two entries tie, top_k cuts one of them off
C4_Witness ==
    /\ LastIsFind
    /\ Len(last.result) = 1
    /\ \E i \in Clearing \ Returned : ScoreOf(i) = last.result[1].score

\* C5: on an index that is not ready (never built, or built with no surviving
\* term) find_similar returns the empty sequence, for every query, top_k and
\* threshold.  (The readiness test sits in front of the try block and returns a
\* list; every later statement is inside it, so each path ends in a returned
\* list and the call's outcome is always a value of `result`.)
C5_NotReadyEmpty ==
    (LastIsFind /\ ~IsCorpusReady(corpus, corpus_embeddings)) => last.result = <<>>

\* C5 witness: find_similar after a build that kept no term
C5_Witness ==
    /\ LastIsFind
    /\ corpus = <<>>
    /\ corpus_embeddings.some
    /\ last.oracleOk

\* both calls of a step are find_similar calls for the same query that the
\* oracle answered, neither truncated by top_k, the second threshold not lower
C6_Comparable ==
    /\ LastIsFind /\ last'.op = "find_similar"
    /\ last'.query = last.query
    /\ last.oracleOk /\ last'.oracleOk
    /\ last.top_k >= Len(corpus) /\ last'.top_k >= Len(corpus)
    /\ last.threshold <= last'.threshold

\* C6: monotonic threshold.  Of two successive find_similar calls for one query
\* with top_k large enough not to truncate, the one with the higher threshold
\* returns no more entries, and only entries the other one returned.
C6_MonotonicThreshold ==
    [][C6_Comparable =>
         /\ Len(last'.result) <= Len(last.result)
         /\ Range(last'.result) \subseteq Range(last.result)]_vars

\* C6 witness: the query was asked twice in a row, the second call with the top
\* threshold and no truncation, and it returns strictly less than the lowest
\* threshold lets through
C6_Witness ==
    /\ LastIsFind /\ repeated /\ Comparable
    /\ last.top_k >= Len(corpus)
    /\ last.threshold = One
    /\ Len(last.result) = 1
    /\ Len(corpus) = 2

\* the vocabulary entry that equals the normalized query of the last call
Self == Pos(Normalize(last.query))

\* C7 as claimed: a query whose normalized form is an entry of the built corpus
\* gets that entry back first, with the maximal score, at least 0.999, for every
\* top_k >= 1 and threshold <= 1.0.  (Stated for a corpus whose vectors are
\* stored and a query the oracle encoded.)
C7_SelfMatchFirst ==
    (/\ LastIsFind /\ Comparable
     /\ Self # 0
     /\ last.top_k >= 1
     /\ last.threshold <= One) =>
        /\ last.result # <<>>
        /\ last.result[1].text = Normalize(last.query)
        /\ last.result[1].score >= One - One \div 1000
        /\ \A i \in 1..Len(corpus) : ScoreOf(i) <= last.result[1].score

\* C7: self-match, for thresholds up to 0.999.  If the normalized query is an
\* entry of the built corpus (vectors stored, query encoded) and threshold <=
\* 0.999, the result is not empty, its first element scores at least 0.999 and
\* at least as high as the entry itself, and the entry is in the result unless
\* top_k cut it off behind entries that score at least as high.
C7_SelfMatch ==
    (/\ LastIsFind /\ Comparable
     /\ Self # 0
     /\ last.top_k >= 1
     /\ last.threshold <= One - One \div 1000) =>
        /\ last.result # <<>>
        /\ last.result[1].score >= One - One \div 1000
        /\ last.result[1].score >= ScoreOf(Self)
        /\ \/ Self \in Returned
           \/ /\ Len(last.result) = last.top_k
              /\ \A n \in 1..Len(last.result) : last.result[n].score >= ScoreOf(Self)

\* C7 witness: a query that differs from its normalized form, which is the
\* second of two entries, asked with threshold 0.999 and answered with that entry
C7_Witness ==
    /\ LastIsFind /\ Comparable
    /\ Self = 2
    /\ last.query # Normalize(last.query)
    /\ last.threshold = One - One \div 1000
    /\ last.result[1].text = Normalize(last.query)

\* C8 as claimed: with a threshold >= 0 every returned score lies in [0, 1].
C8_ScoreInUnitInterval ==
    (LastIsFind /\ last.threshold >= 0) =>
        \A n \in 1..Len(last.result) :
           0 <= last.result[n].score /\ last.result[n].score <= One

RECURSIVE C9_Expected(_)
\* the distinct non-empty values of trim(lowercase(term)), in first-occurrence order
C9_Expected(terms) ==
    IF terms = <<>> THEN <<>>
    ELSE LET before == C9_Expected(SubSeq(terms, 1, Len(terms) - 1))
             n == Strip(Lower(terms[Len(terms)]))
         IN  IF n = <<>> \/ n \in Range(before) THEN before ELSE Append(before, n)

\* C9: after build_corpus(raw_terms) the vocabulary is exactly the distinct
\* non-empty values of trim(lowercase(term)), each once, in the order of first
\* occurrence; no entry is empty or carries leading or trailing whitespace.
C9_VocabularyNormalized ==
    /\ last.op = "build_corpus" => corpus = C9_Expected(last.skills)
    /\ \A i \in 1..Len(corpus), j \in 1..Len(corpus) : i # j => corpus[i] # corpus[j]
    /\ \A i \in 1..Len(corpus) :
          /\ corpus[i] # <<>>
          /\ ~IsSpace(corpus[i][1]) /\ ~IsSpace(corpus[i][Len(corpus[i])])
          /\ Lower(corpus[i]) = corpus[i]

\* C9 witness: a build whose input held a duplicate after normalization and kept
\* fewer terms than it was given
C9_Witness ==
    /\ last.op = "build_corpus"
    /\ Len(last.skills) = 2
    /\ last.skills[1] # last.skills[2]
    /\ Len(corpus) = 1

\* C10: idempotent build.  A build_corpus call that repeats the input of the
\* build_corpus call before it leaves the vocabulary as that call left it
\* (same size, same order).
C10_IdempotentBuild ==
    [][(last.op = "build_corpus" /\ last'.op = "build_corpus"
        /\ last'.skills = last.skills) => corpus' = corpus]_vars

\* C10 witness: the same two-term input was built twice in a row
C10_Witness ==
    /\ last.op = "build_corpus" /\ repeated
    /\ Len(corpus) = 2

----------------------------------------------------------------------------
(* Readiness and oracle failures during the build *)

\* one vector is stored for each vocabulary entry
Parallel(c, emb) == emb.some /\ Len(emb.arr) = Len(c)

\* C11 as claimed: is_corpus_ready is true if and only if a build has
\* completed with a non-empty vocabulary and one embedding stored per entry; it
\* is false before any build and after a build that kept no term, and whenever
\* it is true the text and vector arrays have the same length.
C11_ReadyIffBuiltParallel ==
    /\ IsCorpusReady(corpus, corpus_embeddings)
          <=> (Len(corpus) > 0 /\ Parallel(corpus, corpus_embeddings))
    /\ last = NoCall => ~IsCorpusReady(corpus, corpus_embeddings)
    /\ (last.op = "build_corpus" /\ corpus = <<>>)
          => ~IsCorpusReady(corpus, corpus_embeddings)

\* C12 as claimed: an oracle failure while build_corpus encodes the corpus
\* leaves the constructor as an exception, so no getter ever publishes, and no
\* caller ever receives, a service that has a vocabulary but not one valid
\* embedding per entry.
C12_BuildFailureIsFatal ==
    \A g \in Getters :
       \A t \in ({services[g]} \cup returned[g]) \ {NoObject} :
          Len(heap[g][t].corpus) > 0
             => Parallel(heap[g][t].corpus, heap[g][t].corpus_embeddings)

----------------------------------------------------------------------------
(* match_skills_with_bert *)

LastIsMap == last.op = "match_skills_with_bert"

\* the non-blank candidates of the last match_skills_with_bert call, stripped,
\* in input order
Candidates == LET kept == SelectSeq(last.skills, NonBlank)
              IN  [i \in 1..Len(kept) |-> Strip(kept[i])]

\* what find_similar answers for candidate i of the last call
HitsFor(i) == FindSimilar(corpus, corpus_embeddings, Candidates[i], last.top_k,
                          last.threshold, Candidates[i] \notin last.failing)

\* C13: with a ready index match_skills_with_bert returns one result per
\* non-blank candidate, in input order.  If find_similar has hits for the
\* candidate, the result carries the first hit and its score, no vocabulary
\* entry that the query was compared with scores higher, and confidence is high
\* when the score is > 0.85 and medium otherwise; if it has none, matched_skill
\* is None, the score is 0, confidence is low and the reason field is present.
C13_MapResults ==
    (LastIsMap /\ IsCorpusReady(corpus, corpus_embeddings)) =>
       /\ Len(last.result) = Len(Candidates)
       /\ \A i \in 1..Len(Candidates) :
             LET m == last.result[i]
                 hits == HitsFor(i)
             IN  /\ m.original = Candidates[i]
                 /\ hits # <<>> =>
                       /\ m.matched_skill = SomeText(hits[1].text)
                       /\ m.similarity_score = hits[1].score
                       /\ \A j \in 1..Len(corpus) :
                             CosSim(Encode(Normalize(Candidates[i])),
                                    corpus_embeddings.arr[j]) <= m.similarity_score
                       /\ m.confidence = IF m.similarity_score > (85 * One) \div 100
                                         THEN "high" ELSE "medium"
                       /\ "reason" \notin DOMAIN m
                 /\ hits = <<>> =>
                       /\ m.matched_skill = NoText
                       /\ m.similarity_score = 0
                       /\ m.confidence = "low"
                       /\ "reason" \in DOMAIN m

\* C13 witness: two candidates on a ready index with top_k 2: one gets two hits
\* and a medium confidence, the other no hit and a low confidence
C13_Witness ==
    /\ LastIsMap /\ IsCorpusReady(corpus, corpus_embeddings)
    /\ last.top_k = 2
    /\ Len(last.result) = 2
    /\ {last.result[1].confidence, last.result[2].confidence} = {"medium", "low"}
    /\ Len(HitsFor(1)) + Len(HitsFor(2)) = 2

\* C14 as claimed: when the index is not ready, match_skills_with_bert with a
\* non-empty candidate list fails with a not-ready error, and the /extract
\* route reports a condition other than success.
C14_NotReadyReported ==
    /\ (LastIsMap /\ ~IsCorpusReady(corpus, corpus_embeddings) /\ last.skills # <<>>)
          => "error" \in DOMAIN last.result
    /\ (last.op = "extract" /\ ~IsCorpusReady(corpus, corpus_embeddings)
        /\ last.all_skills # <<>>)
          => last.result.status # "success"

----------------------------------------------------------------------------
(* calculate_profile_match *)

LastIsMatch == last.op = "calculate_profile_match"

\* both lists of the last calculate_profile_match call are non-empty
BothGiven == LastIsMatch /\ last.candidate_skills # <<>> /\ last.job_requirements # <<>>

\* what requirement i of the last call scored
ScoreOfRequirement(i) ==
    RequirementOutcome(corpus, corpus_embeddings, last.candidate_skills,
                       last.job_requirements[i], last.failing).score

\* C15 as claimed: for non-empty candidate_skills and requirements match_score
\* is the sum of the per-requirement scores over the number of requirements;
\* it lies in [0, 1] and is 1 only if every requirement scored 1.0.
C15_MatchScore ==
    BothGiven =>
       LET n == Len(last.job_requirements)
           ms == last.result.match_score
       IN  /\ ms.den = n
           /\ ms.num = SumScores([i \in 1..n |-> ScoreOfRequirement(i)])
           /\ 0 <= ms.num /\ ms.num <= One * ms.den
           /\ ms.num = One * ms.den => \A i \in 1..n : ScoreOfRequirement(i) = One
\* requirement i of the last call and some candidate skill contain one another,
\* letter case aside
ExactHit(i) ==
    \E k \in 1..Len(last.candidate_skills) :
       \/ Contains(Lower(last.candidate_skills[k]), Lower(last.job_requirements[i]))
       \/ Contains(Lower(last.job_requirements[i]), Lower(last.candidate_skills[k]))

\* what find_similar(requirement, top_k=1, threshold=0.70) answers for
\* requirement i of the last call
SemanticHits(i) ==
    FindSimilar(corpus, corpus_embeddings, last.job_requirements[i], 1,
                (70 * One) \div 100, last.job_requirements[i] \notin last.failing)

\* the entry find_similar returned for requirement i is, letter case aside, a
\* candidate skill
SemanticHit(i) ==
    /\ SemanticHits(i) # <<>>
    /\ \E k \in 1..Len(last.candidate_skills) :
          Lower(last.candidate_skills[k]) = Lower(SemanticHits(i)[1].text)

\* C16: a requirement with an exact hit (substring in either direction, case
\* insensitive) is matched with score exactly 1.0 and without a query to the
\* index; a requirement without one is matched only if find_similar(requirement,
\* top_k=1, threshold=0.70) returns an entry that equals a candidate skill case
\* insensitively, with that entry's score, which is >= 0.70; otherwise it is
\* missing.  Exactly the requirements without an exact hit query the index.
C16_ExactThenSemantic ==
    BothGiven =>
       /\ \A i \in 1..Len(last.job_requirements) :
             LET req == last.job_requirements[i]
                 inMatched == req \in Range(last.result.matched_skills)
                 inMissing == req \in Range(last.result.missing_skills)
             IN  /\ ExactHit(i) =>
                       inMatched /\ ~inMissing /\ ScoreOfRequirement(i) = One
                 /\ (~ExactHit(i) /\ SemanticHit(i)) =>
                       /\ inMatched /\ ~inMissing
                       /\ ScoreOfRequirement(i) = SemanticHits(i)[1].score
                       /\ ScoreOfRequirement(i) >= (70 * One) \div 100
                 /\ (~ExactHit(i) /\ ~SemanticHit(i)) =>
                       inMissing /\ ~inMatched /\ ScoreOfRequirement(i) = 0
       /\ last.queries = Cardinality({i \in 1..Len(last.job_requirements) : ~ExactHit(i)})

\* C16 witness: of two requirements one has an exact hit and the other is
\* matched through find_similar, with a score under 1.0
C16_Witness ==
    /\ BothGiven
    /\ Len(last.job_requirements) = 2
    /\ ExactHit(1) /\ ~ExactHit(2) /\ SemanticHit(2)
    /\ ScoreOfRequirement(2) < One
    /\ last.queries = 1
\* C17: calculate_profile_match with no candidate skill and some requirement
\* returns score 0.0, every requirement in missing_skills and none in
\* matched_skills, and makes no find_similar call.
C17_NoCandidates ==
    (LastIsMatch /\ last.candidate_skills = <<>> /\ last.job_requirements # <<>>) =>
       /\ last.result.match_score.num = 0
       /\ last.result.match_percentage = 0
       /\ last.result.missing_skills = last.job_requirements
       /\ last.result.matched_skills = <<>>
       /\ last.queries = 0

\* C17 witness: no candidate, two requirements, on a ready index that would
\* answer a query for the first of them
C17_Witness ==
    /\ LastIsMatch /\ last.candidate_skills = <<>>
    /\ Len(last.job_requirements) = 2
    /\ SemanticHits(1) # <<>>

\* C18: calculate_profile_match with no requirement yields an error outcome,
\* with or without candidate skills: the result carries the error and no
\* score, and no find_similar call is made.
C18_NoRequirements ==
    (LastIsMatch /\ last.job_requirements = <<>>) =>
       /\ "error" \in DOMAIN last.result
       /\ "match_score" \notin DOMAIN last.result
       /\ "match_percentage" \notin DOMAIN last.result
       /\ last.queries = 0

\* C18 witness: no requirement and no candidate skill, on a ready index
C18_Witness ==
    /\ LastIsMatch /\ last.job_requirements = <<>> /\ last.candidate_skills = <<>>
    /\ IsCorpusReady(corpus, corpus_embeddings)

\* the level that the fixed cut points give a percentage
C19_Level(p) ==
    CASE p >= 90 -> "EXCELENTE"
      [] p >= 75 /\ p < 90 -> "BOM"
      [] p >= 60 /\ p < 75 -> "MODERADO"
      [] p >= 40 /\ p < 60 -> "BAIXO"
      [] OTHER -> "INSUFICIENTE"

----------------------------------------------------------------------------
(* infer_occupations *)

LastIsInfer == last.op = "infer_occupations"

\* what find_similar(keyword, top_k=10, threshold) answers for keyword i of the
\* last infer_occupations call
KeywordHits(i) ==
    FindSimilar(corpus, corpus_embeddings, last.keywords[i], 10, last.threshold,
                last.keywords[i] \notin last.failing)

\* the score keyword i gave title t (0 when it did not surface t)
KeywordScore(i, t) ==
    LET hits == KeywordHits(i)
    IN  IF \E n \in 1..Len(hits) : hits[n].text = t
        THEN hits[CHOOSE n \in 1..Len(hits) : hits[n].text = t].score
        ELSE 0

\* the keywords that surfaced title t, the sum of the scores they gave it
SurfacedBy(t) ==
    {i \in 1..Len(last.keywords) :
        \E n \in 1..Len(KeywordHits(i)) : KeywordHits(i)[n].text = t}
TitleCount(t) == Cardinality(SurfacedBy(t))
TitleTotal(t) == SumScores([i \in 1..Len(last.keywords) |-> KeywordScore(i, t)])

\* the titles some keyword surfaced
Surfaced == {t \in Range(corpus) : TitleCount(t) > 0}

\* the titles the last infer_occupations call returned
InferredTitles == {last.result[n].titulo.text : n \in 1..Len(last.result)}

\* title t has a mean at least as high as title u
MeanAtLeast(t, u) == TitleTotal(t) * TitleCount(u) >= TitleTotal(u) * TitleCount(t)

\* C20 as claimed: infer_occupations asks find_similar(keyword, top_k=10,
\* threshold) for each keyword, gives each surfaced title the arithmetic mean
\* of the scores accumulated for it, and returns the titles by that mean
\* descending, cut to the caller's top_k.
C20_InferByMean ==
    LastIsInfer =>
       LET r == last.result
       IN  /\ InferredTitles \subseteq Surfaced
           /\ Len(r) = Min(last.top_k, Cardinality(Surfaced))
           /\ Cardinality(InferredTitles) = Len(r)
           /\ \A n \in 1..Len(r) :
                 r[n].score * TitleCount(r[n].titulo.text) = TitleTotal(r[n].titulo.text)
           /\ \A n \in 1..Len(r), m \in 1..Len(r) :
                 n < m => MeanAtLeast(r[n].titulo.text, r[m].titulo.text)
           /\ \A t \in Surfaced \ InferredTitles, n \in 1..Len(r) :
                 MeanAtLeast(r[n].titulo.text, t)

\* C20: infer_occupations asks find_similar(keyword, top_k=10, threshold) for
\* each keyword and gives each surfaced title the arithmetic mean of the scores
\* accumulated for it, rounded to four decimals; it returns the titles by that
\* rounded score descending, cut to the caller's top_k, so that no omitted
\* title has a higher rounded score than a returned one.
C20_InferByRoundedMean ==
    LastIsInfer =>
       LET r == last.result
           unit == One \div 10000
       IN  /\ InferredTitles \subseteq Surfaced
           /\ Len(r) = Min(last.top_k, Cardinality(Surfaced))
           /\ Cardinality(InferredTitles) = Len(r)
           /\ \A n \in 1..Len(r) :
                 LET t == r[n].titulo.text
                     off == r[n].score * TitleCount(t) - TitleTotal(t)
                 IN  /\ r[n].score % unit = 0
                     /\ 2 * off <= unit * TitleCount(t)
                     /\ 2 * off >= 0 - unit * TitleCount(t)
           /\ \A n \in 1..(Len(r) - 1) : r[n].score >= r[n + 1].score
           /\ \A t \in Surfaced \ InferredTitles, n \in 1..Len(r) :
                 2 * (TitleTotal(t) - r[n].score * TitleCount(t)) <= unit * TitleCount(t)

\* C20 witness: two keywords surfaced the same title with different scores,
\* another title came back with it, and rounding moved a returned score off
\* its mean
C20_Witness ==
    /\ LastIsInfer
    /\ Len(last.result) = 2
    /\ \E t \in InferredTitles :
          /\ TitleCount(t) = 2
          /\ KeywordScore(1, t) # KeywordScore(2, t)
    /\ \E n \in 1..2 :
          last.result[n].score * TitleCount(last.result[n].titulo.text)
             # TitleTotal(last.result[n].titulo.text)

\* C21: in every result of infer_occupations the confidence agrees with the
\* score of the same result: high iff score > 0.80, medium iff
\* 0.70 < score <= 0.80, low iff score <= 0.70.
C21_ConfidenceAgreesWithScore ==
    LastIsInfer =>
       \A n \in 1..Len(last.result) :
          LET r == last.result[n]
          IN  /\ r.confidence = "high" <=> 10 * r.score > 8 * One
              /\ r.confidence = "medium" <=>
                    (10 * r.score > 7 * One /\ 10 * r.score <= 8 * One)
              /\ r.confidence = "low" <=> 10 * r.score <= 7 * One

LastIsInferPrimary == last.op = "infer_primary_occupation"

\* what infer_occupations(text, top_k=1, threshold) answers on the text of the
\* last infer_primary_occupation call
InferTopOne ==
    InferOccupations(corpus, corpus_embeddings, occupations, last.keywords, 1,
                     last.threshold, last.failing)

\* C22: infer_primary_occupation(text, threshold) is the first element of
\* infer_occupations(text, top_k=1, threshold) when that list is not empty, and
\* otherwise the sentinel with no title, no code, score 0 and confidence low;
\* that is also its answer when no keyword is extracted and when the index is
\* not ready.
C22_PrimaryIsFirstOrSentinel ==
    LastIsInferPrimary =>
       /\ InferTopOne # <<>> => last.result = InferTopOne[1]
       /\ InferTopOne = <<>> =>
             /\ ~last.result.titulo.some
             /\ ~last.result.codigo.some
             /\ last.result.score = 0
             /\ last.result.confidence = "low"
       /\ (last.keywords = <<>> \/ ~IsCorpusReady(corpus, corpus_embeddings)) =>
             ~last.result.titulo.some

\* C22 witness: infer_primary_occupation answered the better of two surfaced
\* titles
C22_Witness ==
    /\ LastIsInferPrimary
    /\ Cardinality(Surfaced) = 2
    /\ last.result.titulo.some
    /\ \E t \in Surfaced : t # last.result.titulo.text /\ ~MeanAtLeast(t, last.result.titulo.text)

----------------------------------------------------------------------------
(* _detect_resume_type *)

LastIsDetect == last.op = "_detect_resume_type"

\* the lowercased title of the classified occupation has one of the keywords
HasKeyword(keywords) ==
    \E i \in 1..Len(keywords) : Contains(Lower(last.occupation.titulo.text), keywords[i])

----------------------------------------------------------------------------
(* extract_resume_skills *)

LastIsExtractResume == last.op = "extract_resume_skills"

\* C24: the candidates extract_resume_skills passes to match_skills_with_bert
\* are the union of the lexical pass and the contextual pass without two
\* candidates that differ only in letter case, and total_skills_found counts
\* each case-insensitive term once.
C24_CandidatesDistinctIgnoringCase ==
    LastIsExtractResume =>
       LET found == extract_skills_via_regex(last.resume_text)
                       \cup extract_skills_via_llm(last.resume_text)
       IN  /\ Range(last.all_skills) = found
           /\ \A i, j \in 1..Len(last.all_skills) :
                 Lower(last.all_skills[i]) = Lower(last.all_skills[j]) => i = j
           /\ last.result.total_skills_found = Cardinality({Lower(k) : k \in found})

----------------------------------------------------------------------------
(* Batches *)

LastIsSkillsMatch == last.op = "skills/match"

\* the items of the last batch
BatchOf == IF LastIsSkillsMatch THEN last.unrecognized_skills ELSE last.skills

\* item i of the last batch is malformed: not a str, or blank
Malformed(i) == ~IsStr(BatchOf[i]) \/ ~NonBlank(BatchOf[i])

\* C25: in match_unrecognized_skills (behind /skills/match) and in
\* match_skills_with_bert, one malformed item, not a str or blank, does not
\* abort the batch: the response is a success and every other item has its
\* result.
C25_PartialSuccess ==
    /\ LastIsSkillsMatch /\ IsCorpusReady(corpus, corpus_embeddings)
          /\ Cardinality({i \in 1..Len(BatchOf) : Malformed(i)}) = 1
       => /\ last.result.status = "success"
          /\ \A i \in 1..Len(BatchOf) :
                ~Malformed(i) =>
                   \E n \in 1..Len(last.result.results) :
                      last.result.results[n].key = Normalize(BatchOf[i])
    /\ LastIsMap /\ IsCorpusReady(corpus, corpus_embeddings)
          /\ Cardinality({i \in 1..Len(BatchOf) : Malformed(i)}) = 1
       => \A i \in 1..Len(BatchOf) :
             ~Malformed(i) =>
                \E n \in 1..Len(last.result) : last.result[n].original = Strip(BatchOf[i])

----------------------------------------------------------------------------
(* Thresholds at the request boundaries *)

\* a threshold in [0, 1]
InUnit(threshold) == threshold >= 0 /\ threshold <= One

\* the last request was accepted: its own parameters gave no error response
Accepted == last.result.status = "success"

\* C26: at every request boundary that takes a similarity threshold, a
\* threshold outside [0, 1] does not have the request rejected and does not
\* reach the service: the route's default is used in its place.
C26_LenientDefaulting ==
    /\ last.op = "extract" /\ ~InUnit(last.threshold) =>
          /\ Accepted
          /\ last.result.skills =
                 ExtractResumeSkills(corpus, corpus_embeddings, last.all_skills,
                                     ExtractDefaultThreshold, last.top_k, last.failing).skills
    /\ last.op = "infer-occupation" /\ ~InUnit(last.threshold) =>
          /\ Accepted
          /\ last.result.occupations =
                 InferOccupations(corpus, corpus_embeddings, occupations, last.keywords,
                                  last.top_k, InferRouteDefaultThreshold, last.failing)
    /\ last.op = "infer-primary-occupation" /\ ~InUnit(last.threshold) =>
          /\ Accepted
          /\ last.result.primary_occupation =
                 InferPrimaryOccupation(corpus, corpus_embeddings, occupations,
                                        last.keywords, InferRouteDefaultThreshold,
                                        last.failing)
    /\ last.op = "skills/match" /\ ~InUnit(last.threshold)
          /\ last.unrecognized_skills # <<>> /\ IsCorpusReady(corpus, corpus_embeddings) =>
          /\ Accepted
          /\ last.result.parameters.threshold = MatchDefaultThreshold
          /\ \A n \in 1..Len(last.result.results) :
                last.result.results[n].threshold_used = MatchDefaultThreshold
    /\ last.op = "skills/enrich" /\ ~InUnit(last.threshold)
          /\ last.skills # <<>> /\ IsCorpusReady(corpus, corpus_embeddings) =>
          /\ Accepted
          /\ InUnit(last.result.data.summary.confidence_threshold)

----------------------------------------------------------------------------
(* Publication of the singletons *)

\* thread t is still inside the constructor of the object it created for g
Constructing(g, t) == target[t] = g /\ pc[t] \in {"build", "encode"}

\* C27: under any interleaving of requests, a racing first access included, no
\* global holds and no caller receives a service whose index is partially
\* built (vocabulary assigned and embeddings not yet, or the reverse): the
\* global is assigned only after the constructor, and with it build_corpus,
\* has returned.
C27_NoPartiallyBuiltService ==
    \A g \in Getters :
       \A t \in ({services[g]} \cup returned[g]) \ {NoObject} :
          /\ heap[g][t].exists
          /\ ~Constructing(g, t)
          /\ heap[g][t].corpus # <<>> <=> heap[g][t].corpus_embeddings.some

\* C27 witness: one caller holds a built service while a thread that raced it
\* through the first access is between the two assignments of build_corpus
C27_Witness ==
    \E g \in Getters, t \in Threads, u \in Threads :
       /\ t # u
       /\ t \in returned[g]
       /\ heap[g][t].corpus # <<>>
       /\ target[u] = g
       /\ pc[u] = "encode"
       /\ heap[g][u].corpus # <<>>
       /\ ~heap[g][u].corpus_embeddings.some

----------------------------------------------------------------------------
(* matched_skills and missing_skills *)

\* requirement i of the last calculate_profile_match call counts as matched
Hit(i) == ExactHit(i) \/ SemanticHit(i)
Miss(i) == ~Hit(i)

\* C28: for non-empty candidate_skills and requirements,
\* calculate_profile_match puts every requirement occurrence in exactly one of
\* matched_skills and missing_skills, in input order within each:
\* matched_count + missing_count = required_count, and the scores summed are
\* those of the matched occurrences, one each.
C28_MatchedOrMissing ==
    BothGiven =>
       LET reqs == last.job_requirements
           positions == [i \in 1..Len(reqs) |-> i]
           hits == SelectSeq(positions, Hit)
           misses == SelectSeq(positions, Miss)
           r == last.result
       IN  /\ r.matched_skills = [k \in 1..Len(hits) |-> reqs[hits[k]]]
           /\ r.missing_skills = [k \in 1..Len(misses) |-> reqs[misses[k]]]
           /\ r.matched_count = Len(r.matched_skills)
           /\ r.missing_count = Len(r.missing_skills)
           /\ r.required_count = Len(reqs)
           /\ r.matched_count + r.missing_count = r.required_count
           /\ r.match_score.num =
                 SumScores([k \in 1..r.matched_count |-> ScoreOfRequirement(hits[k])])

\* C28 witness: a requirement occurs more than once among the matched ones and
\* another more than once among the missing ones
C28_Witness ==
    /\ BothGiven
    /\ last.result.matched_count >= 2
    /\ last.result.missing_count >= 2
    /\ last.result.matched_skills[1] = last.result.matched_skills[2]
    /\ last.result.missing_skills[1] = last.result.missing_skills[2]

----------------------------------------------------------------------------
(* Titles and codes of the inferred occupations *)

\* the registry records whose title is t, by position
RecordsTitled(t) == {i \in 1..Len(occupations) : occupations[i].titulo = t}

\* C29: the elements infer_occupations returns have distinct titles and a code
\* each: a returned title is an entry of the title corpus and so resolves to
\* the code of the first registry record with exactly that title.
C29_DistinctTitlesWithCode ==
    LastIsInfer =>
       LET r == last.result
       IN  /\ \A n, m \in 1..Len(r) : r[n].titulo = r[m].titulo => n = m
           /\ \A n \in 1..Len(r) :
                 /\ r[n].titulo.some
                 /\ r[n].titulo.text \in Range(corpus)
                 /\ RecordsTitled(r[n].titulo.text) # {}
                 /\ r[n].codigo.some
                 /\ \E i \in RecordsTitled(r[n].titulo.text) :
                       /\ \A j \in RecordsTitled(r[n].titulo.text) : i <= j
                       /\ r[n].codigo.text = occupations[i].codigo

\* C29 witness: two occupations came back, one of them under a title that two
\* registry records share
C29_Witness ==
    /\ LastIsInfer
    /\ Len(last.result) = 2
    /\ \E n \in 1..2 : Cardinality(RecordsTitled(last.result[n].titulo.text)) = 2

----------------------------------------------------------------------------
\* the request in flight, or the last one answered, is one to /analyze-resume
LastIsAnalyze == "op" \in DOMAIN last /\ last.op = "analyze-resume"

\* the last request to /analyze-resume was answered with its analysis
AnalyzeAnswered == LastIsAnalyze /\ last.response.status = "success"

\* what C30 says of a request to /analyze-resume at any point of its handling
AnalyzeOrdered ==
    LastIsAnalyze =>
       /\ last.classified =>
             /\ last.inferred
             /\ last.resume_type = DetectResumeType(last.primary_occupation)
       /\ last.extracted => last.classified /\ last.resume_type = "technical"
       /\ last.primary_occupation.titulo = NoText /\ last.classified
             => last.resume_type = "unknown"
       /\ AnalyzeAnswered =>
             /\ last.classified
             /\ last.extracted <=> last.resume_type = "technical"
             /\ last.resume_type # "technical" => last.response.skills = <<>>

\* C30: in analyze_resume the occupation is inferred before the resume is
\* classified; the extraction service is invoked, and created if it did not
\* exist, only while a resume classified technical is handled, and every
\* answered technical resume had its skills extracted; a resume with no
\* inferred occupation is classified unknown, and an unknown or non-technical
\* resume is answered with an empty skills list, the extraction service left
\* as it was
C30_ExtractionIffTechnical ==
    [][ /\ AnalyzeOrdered'
        /\ services'["_extraction_service"] # services["_extraction_service"]
              \/ heap'["_extraction_service"] # heap["_extraction_service"]
              => LastIsAnalyze /\ last.classified /\ last.resume_type = "technical"
                    /\ last'.extracted ]_vars

\* a resume whose inferred occupation is technical was answered with the
\* skills found in it, by an extraction service this request created
C30_Witness ==
    /\ AnalyzeAnswered
    /\ last.resume_type = "technical"
    /\ last.extracted
    /\ last.response.skills # <<>>
    /\ services["_extraction_service"] # NoObject

\* a resume with no inferred occupation was answered with an empty skills
\* list while no extraction service exists
C30_WitnessUnknown ==
    /\ AnalyzeAnswered
    /\ last.primary_occupation.titulo = NoText
    /\ last.resume_type = "unknown"
    /\ last.response.skills = <<>>
    /\ services["_extraction_service"] = NoObject

\* a resume whose inferred occupation is non-technical by its score alone
C30_WitnessNonTechnicalByScore ==
    /\ AnalyzeAnswered
    /\ last.resume_type = "non_technical"
    /\ last.primary_occupation.titulo = SomeText(<<"c", " ", "c">>)
    /\ last.response.skills = <<>>

====
